---- MODULE Spec2Model ----
(***************************************************************************)
(* CourseMaster backend: the cache-aside read layer (RedisClient and the   *)
(* handlers that read through it and invalidate it) and the progress       *)
(* tracking of an enrollment.                                              *)
(*                                                                         *)
(* A cache key is the string the handler builds, modelled as a sequence of *)
(* characters in which a serialized JSON payload or an ObjectId is one     *)
(* symbol.  The Redis server's keyspace is `store`; RedisClient's own      *)
(* fields are `client` and `isConnected`.                                  *)
(***************************************************************************)
EXTENDS Integers, Sequences, FiniteSets, TLC

VARIABLES
    configured,     \* process.env.REDIS_HOST or REDIS_URL is set
    client,         \* RedisClient.client is not null
    isConnected,    \* RedisClient.isConnected
    serverUp,       \* the Redis server answers; a backing call throws otherwise
    store,          \* the Redis keyspace: key -> Some(value) or None
    call,           \* the delPattern call under observation (store specification)
    db,             \* MongoDB: users, courses, assignments, enrollments
    reqs,           \* the requests in flight, one per slot
    reqNo,          \* requests started so far (the clock of `new Date()`)
    courseCommits,  \* committed writes to the courses collection
    courseAcked,    \* the last of them whose handler has sent its success response
    enrollment,     \* the Enrollment document of one student in one course
    lessonProgress, \* the Progress documents of that student and course
    lastCall,       \* the previous markLessonComplete call and its status code
    lessonCalls,    \* the markLessonComplete calls in flight, one per caller
    quiz,           \* the Quiz document under one id, or none
    quizResults,    \* the QuizResult collection, in order of creation
    quizCall,       \* the previous quiz request and what it answered
    assignments,    \* the Assignment collection of one course, by _id
    asgCalls,       \* the assignment requests in flight, one per caller
    strictQuery,    \* mongoose's strictQuery option, fixed by the build
    batchStudents,  \* the students enrolled in the course of the batch
    enrollments,    \* the Enrollment collection, in order of creation
    enrollCalls     \* the enrolment requests in flight, one per caller

redisVars == <<configured, client, isConnected, serverUp, store>>
quizVars == <<quiz, quizResults, quizCall>>
enrVars == <<enrollments, enrollCalls>>
asgVars == <<assignments, asgCalls, strictQuery, batchStudents, enrVars>>
lmsVars == <<enrollment, lessonProgress, lastCall, lessonCalls, quizVars, asgVars>>
handlerVars == <<db, reqs, reqNo, courseCommits, courseAcked, lmsVars>>
vars == <<configured, client, isConnected, serverUp, store, call,
          db, reqs, reqNo, courseCommits, courseAcked,
          enrollment, lessonProgress, lastCall, lessonCalls,
          quiz, quizResults, quizCall,
          assignments, asgCalls, strictQuery, batchStudents,
          enrollments, enrollCalls>>

Null == "null"
None == <<>>            \* no value: a cache miss, no response yet
Some(v) == <<v>>

-----------------------------------------------------------------------------
(* Identifiers the requests carry.                                         *)

UserIds == {"a1", "s1"}
CourseIds == {"c1"}
CourseQueries == {"q1", "q2"}   \* serialized {query, sort, page, limit}
ListFilters == {"f1"}           \* serialized filter/paging objects

-----------------------------------------------------------------------------
(* Cache keys and patterns, as the handlers spell them.                    *)

Str_courses == <<"c", "o", "u", "r", "s", "e", "s">>
Str_assignments == <<"a", "s", "s", "i", "g", "n", "m", "e", "n", "t", "s">>
Str_users == <<"u", "s", "e", "r", "s">>
Str_user == <<"u", "s", "e", "r">>
Str_all == <<"a", "l", "l">>
Str_course == <<"c", "o", "u", "r", "s", "e">>
Str_pending == <<"p", "e", "n", "d", "i", "n", "g">>
Str_stats == <<"s", "t", "a", "t", "s">>
Colon == <<":">>
Star == <<"*">>

CoursesKey(q) == Str_courses \o Colon \o <<q>>
AssignmentsAllKey(u, f) == Str_assignments \o Colon \o Str_all \o Colon \o <<u>> \o Colon \o <<f>>
AssignmentsCourseKey(c, u) == Str_assignments \o Colon \o Str_course \o Colon \o <<c>> \o Colon \o <<u>>
AssignmentsPendingKey == Str_assignments \o Colon \o Str_pending
UsersAllKey(f) == Str_users \o Colon \o Str_all \o Colon \o <<f>>
UsersStatsKey == Str_users \o Colon \o Str_stats
UserKey(u) == Str_user \o Colon \o <<u>>

CoursesPattern == Str_courses \o Colon \o Star
AssignmentsPattern == Str_assignments \o Colon \o Star
UsersPattern == Str_users \o Colon \o Star

AllKeys ==
    {CoursesKey(q) : q \in CourseQueries}
    \cup {AssignmentsAllKey(u, f) : u \in UserIds, f \in ListFilters}
    \cup {AssignmentsCourseKey(c, u) : c \in CourseIds, u \in UserIds}
    \cup {AssignmentsPendingKey, UsersStatsKey}
    \cup {UsersAllKey(f) : f \in ListFilters}
    \cup {UserKey(u) : u \in UserIds}

AllPatterns == {CoursesPattern, AssignmentsPattern, UsersPattern}

(* Redis KEYS glob: `*` matches any run of characters, every other         *)
(* character of the patterns used here matches itself.                     *)
RECURSIVE GlobMatch(_, _)
GlobMatch(p, k) ==
    IF p = <<>> THEN k = <<>>
    ELSE IF Head(p) = "*"
         THEN GlobMatch(Tail(p), k) \/ (k # <<>> /\ GlobMatch(p, Tail(k)))
         ELSE k # <<>> /\ Head(p) = Head(k) /\ GlobMatch(Tail(p), Tail(k))

-----------------------------------------------------------------------------
(* RedisClient (utils/redis.util).                                         *)

\* the guard `if (!this.isConnected || !this.client) return`
CacheUsable == isConnected /\ client

\* a get without its try/catch: the error of client.get reaches the handler
RedisClient_get_uncaught(key) ==
    [threw |-> CacheUsable /\ ~serverUp,
     value |-> IF CacheUsable /\ serverUp THEN store[key] ELSE None]

\* get: null when unusable or when client.get throws
RedisClient_get(key) ==
    [threw |-> FALSE,
     value |-> IF ~CacheUsable THEN None
               ELSE IF serverUp THEN store[key] ELSE None]

\* set: client.setEx, dropped when unusable or when it throws
RedisClient_set(key, value) ==
    [threw |-> FALSE,
     store |-> IF CacheUsable /\ serverUp THEN [store EXCEPT ![key] = value]
               ELSE store]

\* del: client.del(key)
RedisClient_del(key) ==
    [threw |-> FALSE,
     store |-> IF CacheUsable /\ serverUp THEN [store EXCEPT ![key] = None]
               ELSE store]

\* the Redis server's answer to KEYS pattern
Keys(pattern) ==
    {k \in AllKeys : store[k] # None /\ GlobMatch(pattern, k)}

\* delPattern up to its first await, client.keys(pattern): nothing more
\* follows when the client is unusable, the call throws or no key matches
RedisClient_delPattern_keys(pattern) ==
    [threw |-> FALSE,
     keys |-> IF CacheUsable /\ serverUp THEN Keys(pattern) ELSE {}]

\* a buggy client.del(keys) that removes one of the keys only
DelKeys_onlyOne(keys) ==
    IF keys = {} THEN store
    ELSE [store EXCEPT ![CHOOSE k \in keys : TRUE] = None]

\* the Redis server's DEL of several keys
DelKeys(keys) ==
    [k \in AllKeys |-> IF k \in keys THEN None ELSE store[k]]

\* delPattern from its second await, client.del(keys), which is not guarded
\* by isConnected again
RedisClient_delPattern_del(keys) ==
    [threw |-> FALSE,
     store |-> IF serverUp THEN DelKeys(keys) ELSE store]

\* connect(): skipped when unconfigured; otherwise the client is created and
\* its 'connect' event (OnConnect) marks it connected if the server answers
connect ==
    /\ ~isConnected
    /\ ~client
    /\ configured
    /\ client' = TRUE
    /\ UNCHANGED <<configured, isConnected, serverUp, store>>
    /\ UNCHANGED <<call, handlerVars>>

\* client.on('error'): a lost connection marks the client disconnected
OnError ==
    /\ client
    /\ ~serverUp
    /\ isConnected
    /\ isConnected' = FALSE
    /\ UNCHANGED <<configured, client, serverUp, store>>
    /\ UNCHANGED <<call, handlerVars>>

\* client.on('connect'): (re)connection marks the client connected; the
\* server's keyspace is what it was
OnConnect ==
    /\ client
    /\ serverUp
    /\ ~isConnected
    /\ isConnected' = TRUE
    /\ UNCHANGED <<configured, client, serverUp, store>>
    /\ UNCHANGED <<call, handlerVars>>

\* the network or the server goes away / comes back, as the client sees it
ServerDown ==
    /\ client
    /\ serverUp
    /\ serverUp' = FALSE
    /\ UNCHANGED <<configured, client, isConnected, store>>
    /\ UNCHANGED <<call, handlerVars>>

ServerBack ==
    /\ ~serverUp
    /\ serverUp' = TRUE
    /\ UNCHANGED <<configured, client, isConnected, store>>
    /\ UNCHANGED <<call, handlerVars>>

\* setEx: an entry's TTL runs out
Expire(k) ==
    /\ store[k] # None
    /\ store' = [store EXCEPT ![k] = None]
    /\ UNCHANGED <<configured, client, isConnected, serverUp>>
    /\ UNCHANGED <<call, handlerVars>>

RedisInit ==
    /\ configured \in BOOLEAN
    /\ client = FALSE
    /\ isConnected = FALSE
    /\ serverUp = TRUE
    /\ store = [k \in AllKeys |-> None]

-----------------------------------------------------------------------------
(* MongoDB documents.                                                      *)

NoDoc == "nodoc"                \* no course document under this id
NoStudent == "nostudent"
Public == "public"

Roles == {"student", "admin"}
Profiles == {"p1", "p2"}          \* name, email, bio, phone, avatar, permissions
CourseBodies == {"b1", "b2"}      \* req.body of createCourse / updateCourse
AsgIds == {"g1"}
AsgTexts == {"d1", "d2"}          \* title, description, dueDate

MaxReqs == 2                      \* requests a behaviour starts
MaxLongReqs == 3                  \* the same in the three-request specification
MaxConcReqs == 3                  \* the same in the concurrent specification
NSlots == 2                       \* requests in flight at once (concurrent spec)
Slots == 1..NSlots

UserDoc(role, isActive, lastLogin, profile) ==
    [role |-> role, isActive |-> isActive, lastLogin |-> lastLogin, profile |-> profile]

AsgDoc(student, course, status, text, submission, review) ==
    [student |-> student, course |-> course, status |-> status, text |-> text,
     submission |-> submission, review |-> review]

\* no user / no assignment document under this id
NoUser == UserDoc("none", FALSE, 0, "none")
NoAsg == AsgDoc(NoStudent, "none", "none", "none", 0, None)

\* a request: its parameters, its place in the handler, what it has done.
\* `log` is the order of its database write, purge attempts and response;
\* `purged` the patterns and keys it has attempted to purge; `blind` says that
\* no cache call of it has found the cache available
Request(h, actor, target, arg, no) ==
    [h |-> h, actor |-> actor, target |-> target, arg |-> arg, no |-> no,
     pc |-> 1, status |-> "run", code |-> 0, err |-> Null, role |-> Null,
     resp |-> None, src |-> Null, keys |-> {},
     wrote |-> FALSE, purged |-> {}, log |-> <<>>,
     floor |-> courseAcked, commit |-> 0, blind |-> TRUE]

IdleReq ==
    [h |-> "idle", actor |-> Null, target |-> Null, arg |-> Null, no |-> 0,
     pc |-> 0, status |-> "idle", code |-> 0, err |-> Null, role |-> Null,
     resp |-> None, src |-> Null, keys |-> {},
     wrote |-> FALSE, purged |-> {}, log |-> <<>>,
     floor |-> 0, commit |-> 0, blind |-> TRUE]

Instr(op, a) == [op |-> op, a |-> a]

-----------------------------------------------------------------------------
(* What each read handler computes from the database.                      *)

ExistingAsgs == {g \in AsgIds : db.assignments[g] # NoAsg}

\* getAllAssignments: a student sees the assignments assigned to them and the
\* unassigned ones of the courses they are enrolled in; staff see all
getAllAssignments_find(u, role) ==
    {<<g, db.assignments[g]>> : g \in
        {x \in ExistingAsgs :
            IF role = "student"
            THEN \/ db.assignments[x].student = u
                 \/ /\ <<u, db.assignments[x].course>> \in db.enrollments
                    /\ db.assignments[x].student = NoStudent
            ELSE TRUE}}

\* getAssignmentsByCourse: a student sees only their own
getAssignmentsByCourse_find(c, u, role) ==
    {<<g, db.assignments[g]>> : g \in
        {x \in ExistingAsgs :
            /\ db.assignments[x].course = c
            /\ role = "student" => db.assignments[x].student = u}}

getPendingAssignments_find ==
    {<<g, db.assignments[g]>> : g \in
        {x \in ExistingAsgs : db.assignments[x].status \in {"pending", "submitted"}}}

\* getUserStats: counts by role and by isActive
getUserStats_aggregate ==
    [u \in UserIds |->
        <<db.users[u].role, db.users[u].isActive>>]

\* the response body the handler builds on a cache miss
Fresh(r) ==
    CASE r.h = "getCourses" -> <<r.arg, db.courses>>
      [] r.h = "getAllAssignments" -> getAllAssignments_find(r.actor, r.role)
      [] r.h = "getAssignmentsByCourse" -> getAssignmentsByCourse_find(r.target, r.actor, r.role)
      [] r.h = "getPendingAssignments" -> getPendingAssignments_find
      [] r.h = "getAllUsers" -> <<r.arg, db.users>>
      [] r.h = "getUserById" -> db.users[r.target]
      [] r.h = "getUserStats" -> getUserStats_aggregate
      [] OTHER -> Null

\* getUserById throws 404 when the user is absent, before anything is cached
FreshCode(r) ==
    IF r.h = "getUserById" /\ db.users[r.target] = NoUser THEN 404 ELSE 200

-----------------------------------------------------------------------------
(* What each mutating handler does to the database: the status code it     *)
(* ends with when it stops early (db unchanged) or 0 and the new db.       *)

Fail(code) == [code |-> code, db |-> db]
Commit(newdb) == [code |-> 0, db |-> newdb]

\* Course.create(req.body)
createCourse_write(r) ==
    IF db.courses[r.target] # NoDoc THEN Fail(500)
    ELSE Commit([db EXCEPT !.courses[r.target] = r.arg])

\* Course.findByIdAndUpdate(req.params.id, req.body)
updateCourse_write(r) ==
    IF db.courses[r.target] = NoDoc THEN Fail(404)
    ELSE Commit([db EXCEPT !.courses[r.target] = r.arg])

\* Course.findByIdAndDelete(req.params.id)
deleteCourse_write(r) ==
    IF db.courses[r.target] = NoDoc THEN Fail(404)
    ELSE Commit([db EXCEPT !.courses[r.target] = NoDoc])

\* createUser: 400 when the email is taken, else User.create
createUser_write(r) ==
    IF db.users[r.target] # NoUser THEN Fail(400)
    ELSE Commit([db EXCEPT !.users[r.target] = UserDoc(r.arg, TRUE, 0, "p1")])

\* register: User.create; a taken email is a duplicate-key error
register_write(r) ==
    IF db.users[r.target] # NoUser THEN Fail(500)
    ELSE Commit([db EXCEPT !.users[r.target] = UserDoc(r.arg, TRUE, 0, "p1")])

\* updateUser: findById, edit the profile fields, save
updateUser_write(r) ==
    IF db.users[r.target] = NoUser THEN Fail(404)
    ELSE Commit([db EXCEPT !.users[r.target].profile = r.arg])

\* deleteUser: not yourself; soft delete
deleteUser_write(r) ==
    IF db.users[r.target] = NoUser THEN Fail(404)
    ELSE IF r.target = r.actor THEN Fail(400)
    ELSE Commit([db EXCEPT !.users[r.target].isActive = FALSE])

\* toggleUserStatus
toggleUserStatus_write(r) ==
    IF db.users[r.target] = NoUser THEN Fail(404)
    ELSE Commit([db EXCEPT !.users[r.target].isActive = ~db.users[r.target].isActive])

\* changeUserRole: a known role, an existing user, not yourself
changeUserRole_write(r) ==
    IF r.arg \notin Roles THEN Fail(400)
    ELSE IF db.users[r.target] = NoUser THEN Fail(404)
    ELSE IF r.target = r.actor THEN Fail(400)
    ELSE Commit([db EXCEPT !.users[r.target].role = r.arg])

Students == {u \in UserIds : db.users[u].role = "student"}

\* createAssignment: the course must exist; with a batch, one pending
\* assignment per student, otherwise one unassigned template.  r.target is
\* the id the new document gets, r.arg the student of the batch or NoStudent
createAssignment_write(r) ==
    IF db.courses[r.arg.course] = NoDoc THEN Fail(404)
    ELSE IF db.assignments[r.target] # NoAsg THEN Fail(500)
    ELSE IF r.arg.batch /\ Students = {} THEN Commit(db)
    ELSE Commit([db EXCEPT !.assignments[r.target] =
            AsgDoc(IF r.arg.batch THEN CHOOSE u \in Students : TRUE ELSE NoStudent,
                   r.arg.course, "pending", "d1", 0, None)])

\* updateAssignment: title, description, dueDate
updateAssignment_write(r) ==
    IF db.assignments[r.target] = NoAsg THEN Fail(404)
    ELSE Commit([db EXCEPT !.assignments[r.target].text = r.arg])

\* deleteAssignment
deleteAssignment_write(r) ==
    IF db.assignments[r.target] = NoAsg THEN Fail(404)
    ELSE Commit([db EXCEPT !.assignments[r.target] = NoAsg])

Reviewed(doc, r) == [doc EXCEPT !.review = <<r.actor, r.no>>, !.status = "reviewed"]

\* reviewAssignment of assignment.controller: staff only, whatever the status
reviewAssignment_write(r) ==
    IF db.assignments[r.target] = NoAsg THEN Fail(404)
    ELSE Commit([db EXCEPT !.assignments[r.target] = Reviewed(@, r)])

\* reviewAssignment of adminAssignment.controller: only a submitted one
adminAssignment_reviewAssignment_write(r) ==
    IF db.assignments[r.target] = NoAsg THEN Fail(404)
    ELSE IF db.assignments[r.target].status # "submitted" THEN Fail(400)
    ELSE Commit([db EXCEPT !.assignments[r.target] = Reviewed(@, r)])

\* reviewAssignment of admin.controller: findByIdAndUpdate
admin_reviewAssignment_write(r) ==
    IF db.assignments[r.target] = NoAsg THEN Fail(404)
    ELSE Commit([db EXCEPT !.assignments[r.target] = Reviewed(@, r)])

\* submitAssignment: the student's own or an unassigned assignment of the
\* course is taken over, otherwise a new one is created (id r.target)
submitAssignment_match(r) ==
    {g \in ExistingAsgs :
        /\ db.assignments[g].course = r.arg
        /\ db.assignments[g].student \in {r.actor, NoStudent}}

submitAssignment_write(r) ==
    IF submitAssignment_match(r) # {}
    THEN LET g == CHOOSE x \in submitAssignment_match(r) : TRUE
         IN Commit([db EXCEPT !.assignments[g] =
                [@ EXCEPT !.student = r.actor, !.submission = r.no,
                          !.status = "submitted"]])
    ELSE IF db.assignments[r.target] # NoAsg THEN Fail(500)
    ELSE Commit([db EXCEPT !.assignments[r.target] =
            AsgDoc(r.actor, r.arg, "submitted", "d1", r.no, None)])

\* enrollInCourse: once per student and course, in an existing course
enrollInCourse_write(r) ==
    IF <<r.actor, r.target>> \in db.enrollments THEN Fail(400)
    ELSE IF db.courses[r.target] = NoDoc THEN Fail(404)
    ELSE Commit([db EXCEPT !.enrollments = @ \cup {<<r.actor, r.target>>}])

Write(r) ==
    CASE r.h = "createCourse" -> createCourse_write(r)
      [] r.h = "updateCourse" -> updateCourse_write(r)
      [] r.h = "deleteCourse" -> deleteCourse_write(r)
      [] r.h = "createUser" -> createUser_write(r)
      [] r.h = "register" -> register_write(r)
      [] r.h = "updateUser" -> updateUser_write(r)
      [] r.h = "deleteUser" -> deleteUser_write(r)
      [] r.h = "toggleUserStatus" -> toggleUserStatus_write(r)
      [] r.h = "changeUserRole" -> changeUserRole_write(r)
      [] r.h = "createAssignment" -> createAssignment_write(r)
      [] r.h = "updateAssignment" -> updateAssignment_write(r)
      [] r.h = "deleteAssignment" -> deleteAssignment_write(r)
      [] r.h = "reviewAssignment" -> reviewAssignment_write(r)
      [] r.h = "adminAssignment_reviewAssignment" -> adminAssignment_reviewAssignment_write(r)
      [] r.h = "admin_reviewAssignment" -> admin_reviewAssignment_write(r)
      [] r.h = "submitAssignment" -> submitAssignment_write(r)
      [] r.h = "enrollInCourse" -> enrollInCourse_write(r)
      [] OTHER -> Fail(500)

-----------------------------------------------------------------------------
(* The handlers, each as the sequence of its awaited steps.                *)

Protect == Instr("protect", Null)              \* middleware protect
Authorize(roles) == Instr("authorize", roles)  \* middleware authorize(...roles)
Deny(roles) == Instr("deny", roles)            \* a role check in the handler: 403
CacheGet(key) == Instr("cacheGet", key)        \* redisClient.get, respond on a hit
DbRead == Instr("dbRead", Null)                \* the find / count / aggregate
CacheSet(key) == Instr("cacheSet", key)        \* redisClient.set(key, response)
DbWrite == Instr("dbWrite", Null)              \* the find and the save / create
DelPattern(pattern) == Instr("delPattern", pattern)
Del(key) == Instr("del", key)
\* the query awaited after the purge, for the document the response carries
Reload == Instr("reload", Null)
Respond(code) == Instr("respond", code)        \* res.status(code).json(...)

getCourses(r) ==
    <<CacheGet(CoursesKey(r.arg)), DbRead, CacheSet(CoursesKey(r.arg)), Respond(200)>>

createCourse(r) ==
    <<Protect, Authorize({"admin", "teacher"}),
      DbWrite, DelPattern(CoursesPattern), Respond(201)>>

\* an updateCourse that purges before it writes
updateCourse_purgeFirst(r) ==
    <<Protect, Authorize({"admin", "teacher"}),
      DelPattern(CoursesPattern), DbWrite, Respond(200)>>

updateCourse(r) ==
    <<Protect, Authorize({"admin", "teacher"}),
      DbWrite, DelPattern(CoursesPattern), Respond(200)>>

deleteCourse(r) ==
    <<Protect, Authorize({"admin"}),
      DbWrite, DelPattern(CoursesPattern), Respond(200)>>

AssignmentRoutes == Authorize({"admin", "moderator", "teacher", "student"})

getAllAssignments(r) ==
    <<Protect, AssignmentRoutes,
      CacheGet(AssignmentsAllKey(r.actor, r.arg)), DbRead,
      CacheSet(AssignmentsAllKey(r.actor, r.arg)), Respond(200)>>

getAssignmentsByCourse(r) ==
    <<Protect, AssignmentRoutes,
      CacheGet(AssignmentsCourseKey(r.target, r.actor)), DbRead,
      CacheSet(AssignmentsCourseKey(r.target, r.actor)), Respond(200)>>

\* getPendingAssignments without its role check
getPendingAssignments_noCheck(r) ==
    <<Protect, AssignmentRoutes,
      CacheGet(AssignmentsPendingKey), DbRead,
      CacheSet(AssignmentsPendingKey), Respond(200)>>

getPendingAssignments(r) ==
    <<Protect, AssignmentRoutes, Deny({"student"}),
      CacheGet(AssignmentsPendingKey), DbRead,
      CacheSet(AssignmentsPendingKey), Respond(200)>>

reviewAssignment(r) ==
    <<Protect, AssignmentRoutes, Deny({"student"}),
      DbWrite, DelPattern(AssignmentsPattern), Reload, Respond(200)>>

submitAssignment(r) ==
    <<Protect, AssignmentRoutes, Deny(Roles \ {"student"}),
      DbWrite, DelPattern(AssignmentsPattern), Respond(200)>>

AdminAssignmentRoutes == Authorize({"admin", "instructor", "teacher"})

createAssignment(r) == <<Protect, AdminAssignmentRoutes, DbWrite, Respond(201)>>

updateAssignment(r) == <<Protect, AdminAssignmentRoutes, DbWrite, Respond(200)>>

deleteAssignment(r) == <<Protect, AdminAssignmentRoutes, DbWrite, Respond(200)>>

adminAssignment_reviewAssignment(r) ==
    <<Protect, AdminAssignmentRoutes, DbWrite, Respond(200)>>

admin_reviewAssignment(r) == <<Protect, Authorize({"admin"}), DbWrite, Respond(200)>>

enrollInCourse(r) == <<Protect, Authorize({"student"}), DbWrite, Respond(201)>>

UserRoutes == Authorize({"admin", "moderator"})

getAllUsers(r) ==
    <<Protect, UserRoutes,
      CacheGet(UsersAllKey(r.arg)), DbRead, CacheSet(UsersAllKey(r.arg)), Respond(200)>>

getUserById(r) ==
    <<Protect, UserRoutes,
      CacheGet(UserKey(r.target)), DbRead, CacheSet(UserKey(r.target)), Respond(200)>>

getUserStats(r) ==
    <<Protect, UserRoutes,
      CacheGet(UsersStatsKey), DbRead, CacheSet(UsersStatsKey), Respond(200)>>

createUser(r) ==
    <<Protect, UserRoutes, DbWrite, DelPattern(UsersPattern), Respond(201)>>

updateUser(r) ==
    <<Protect, UserRoutes,
      DbWrite, DelPattern(UsersPattern), Del(UserKey(r.target)),
      Reload, Respond(200)>>

deleteUser(r) ==
    <<Protect, UserRoutes, Authorize({"admin"}),
      DbWrite, DelPattern(UsersPattern), Del(UserKey(r.target)), Respond(200)>>

toggleUserStatus(r) ==
    <<Protect, UserRoutes,
      DbWrite, DelPattern(UsersPattern), Del(UserKey(r.target)),
      Reload, Respond(200)>>

changeUserRole(r) ==
    <<Protect, UserRoutes, Authorize({"admin"}),
      DbWrite, DelPattern(UsersPattern), Del(UserKey(r.target)),
      Reload, Respond(200)>>

register(r) == <<DbWrite, Respond(201)>>

Program(r) ==
    CASE r.h = "getCourses" -> getCourses(r)
      [] r.h = "createCourse" -> createCourse(r)
      [] r.h = "updateCourse" -> updateCourse(r)
      [] r.h = "deleteCourse" -> deleteCourse(r)
      [] r.h = "getAllAssignments" -> getAllAssignments(r)
      [] r.h = "getAssignmentsByCourse" -> getAssignmentsByCourse(r)
      [] r.h = "getPendingAssignments" -> getPendingAssignments(r)
      [] r.h = "reviewAssignment" -> reviewAssignment(r)
      [] r.h = "submitAssignment" -> submitAssignment(r)
      [] r.h = "createAssignment" -> createAssignment(r)
      [] r.h = "updateAssignment" -> updateAssignment(r)
      [] r.h = "deleteAssignment" -> deleteAssignment(r)
      [] r.h = "adminAssignment_reviewAssignment" -> adminAssignment_reviewAssignment(r)
      [] r.h = "admin_reviewAssignment" -> admin_reviewAssignment(r)
      [] r.h = "enrollInCourse" -> enrollInCourse(r)
      [] r.h = "getAllUsers" -> getAllUsers(r)
      [] r.h = "getUserById" -> getUserById(r)
      [] r.h = "getUserStats" -> getUserStats(r)
      [] r.h = "createUser" -> createUser(r)
      [] r.h = "updateUser" -> updateUser(r)
      [] r.h = "deleteUser" -> deleteUser(r)
      [] r.h = "toggleUserStatus" -> toggleUserStatus(r)
      [] r.h = "changeUserRole" -> changeUserRole(r)
      [] r.h = "register" -> register(r)
      [] OTHER -> <<>>

CourseReads == {"getCourses"}
CourseWrites == {"createCourse", "updateCourse", "deleteCourse"}
AssignmentReads == {"getAllAssignments", "getAssignmentsByCourse", "getPendingAssignments"}
AssignmentWrites ==
    {"createAssignment", "updateAssignment", "deleteAssignment", "submitAssignment",
     "reviewAssignment", "adminAssignment_reviewAssignment", "admin_reviewAssignment"}
UserReads == {"getAllUsers", "getUserById", "getUserStats"}
UserWrites ==
    {"createUser", "updateUser", "deleteUser", "toggleUserStatus", "changeUserRole",
     "register"}
CachedReads == CourseReads \cup AssignmentReads \cup UserReads
AllHandlers ==
    CachedReads \cup CourseWrites \cup AssignmentWrites \cup UserWrites
    \cup {"enrollInCourse"}

\* the parameters a request of each handler can carry
P(actor, target, arg) == [actor |-> actor, target |-> target, arg |-> arg]

ParamSet(h) ==
    CASE h = "getCourses" -> {P(Public, Null, q) : q \in CourseQueries}
      [] h = "createCourse" -> {P(u, c, b) : u \in UserIds, c \in CourseIds, b \in CourseBodies}
      [] h = "updateCourse" -> {P(u, c, b) : u \in UserIds, c \in CourseIds, b \in CourseBodies}
      [] h = "deleteCourse" -> {P(u, c, Null) : u \in UserIds, c \in CourseIds}
      [] h = "getAllAssignments" -> {P(u, Null, f) : u \in UserIds, f \in ListFilters}
      [] h = "getAssignmentsByCourse" -> {P(u, c, Null) : u \in UserIds, c \in CourseIds}
      [] h = "getPendingAssignments" -> {P(u, Null, Null) : u \in UserIds}
      [] h \in {"reviewAssignment", "adminAssignment_reviewAssignment",
                "admin_reviewAssignment", "deleteAssignment"} ->
            {P(u, g, Null) : u \in UserIds, g \in AsgIds}
      [] h = "submitAssignment" -> {P(u, g, c) : u \in UserIds, g \in AsgIds, c \in CourseIds}
      [] h = "createAssignment" ->
            {P(u, g, [course |-> c, batch |-> b]) :
                u \in UserIds, g \in AsgIds, c \in CourseIds, b \in BOOLEAN}
      [] h = "updateAssignment" -> {P(u, g, t) : u \in UserIds, g \in AsgIds, t \in AsgTexts}
      [] h = "enrollInCourse" -> {P(u, c, Null) : u \in UserIds, c \in CourseIds}
      [] h = "getAllUsers" -> {P(u, Null, f) : u \in UserIds, f \in ListFilters}
      [] h = "getUserById" -> {P(u, t, Null) : u \in UserIds, t \in UserIds}
      [] h = "getUserStats" -> {P(u, Null, Null) : u \in UserIds}
      [] h = "createUser" -> {P(u, t, ro) : u \in UserIds, t \in UserIds, ro \in Roles}
      [] h = "register" -> {P(Public, t, ro) : t \in UserIds, ro \in Roles}
      [] h = "updateUser" -> {P(u, t, p) : u \in UserIds, t \in UserIds, p \in Profiles}
      [] h \in {"deleteUser", "toggleUserStatus"} ->
            {P(u, t, Null) : u \in UserIds, t \in UserIds}
      [] h = "changeUserRole" ->
            {P(u, t, ro) : u \in UserIds, t \in UserIds, ro \in Roles \cup {"bogus"}}
      [] OTHER -> {}

-----------------------------------------------------------------------------
(* Progress of one enrollment.  Two controllers export markLessonComplete: *)
(* the one routed at PUT /enrollments/:id/lesson/complete counts calls,    *)
(* the one of POST /api/student/progress counts Progress documents.        *)

MaxLessons == 3                   \* totalLessons of the enrollment: 0..MaxLessons
MaxIndex == 1                     \* moduleIndex and lessonIndex: 0..MaxIndex
MaxCalls == 3                     \* markLessonComplete calls in a behaviour

LessonRefs == (0..MaxIndex) \X (0..MaxIndex)

\* a course of many lessons, most of them done: 22 of 40
ManyLessons == 40
DoneLessons == 22

\* the Progress collection of the student and course: how many documents
\* each (moduleIndex, lessonIndex) has
NoProgress == [l \in LessonRefs |-> 0]

RECURSIVE SumOver(_, _)
SumOver(f, S) ==
    IF S = {} THEN 0
    ELSE LET x == CHOOSE y \in S : TRUE IN f[x] + SumOver(f, S \ {x})

\* Progress.countDocuments({student, course}) on the documents `docs`
Progress_countDocuments(docs) == SumOver(docs, LessonRefs)

\* the unique index on (student, course, moduleIndex, lessonIndex) lets an
\* insert through only when no document has the key
UniqueIndex(docs, l) == docs[l] = 0

\* Progress.findOneAndUpdate(key, key, {upsert: true}) running alone
Progress_upsert(docs, l) ==
    IF docs[l] > 0 THEN docs ELSE [docs EXCEPT ![l] = @ + 1]

EnrollmentDoc(total, completed, progress, isCompleted, completedAt) ==
    [exists |-> TRUE, totalLessons |-> total, completedLessons |-> completed,
     progress |-> progress, isCompleted |-> isCompleted, completedAt |-> completedAt]

\* Enrollment.findOne found nothing
NoEnrollment ==
    [exists |-> FALSE, totalLessons |-> 0, completedLessons |-> 0,
     progress |-> 0, isCompleted |-> FALSE, completedAt |-> 0]

\* what completed / 0 rounds to when completed > 0
Infinity == 1000000

\* 0 / 0
NaN == 0 - 1000000

(* JavaScript numbers are IEEE 754 doubles.  A positive double is held as  *)
(* its 53-bit significand m and the exponent e of its last bit: the value  *)
(* is m * 2^e.  The significand is kept in three limbs of 18 bits,         *)
(* m = <<m2, m1, m0>> for m2 * 2^36 + m1 * 2^18 + m0, with 2^16 <= m2 < 2^17. *)
Limb == 262144

RECURSIVE Pow2(_)
Pow2(k) == IF k = 0 THEN 1 ELSE 2 * Pow2(k - 1)

RECURSIVE BitLen(_)
BitLen(n) == IF n = 0 THEN 0 ELSE 1 + BitLen(n \div 2)

\* the least k with n * 2^k >= d
RECURSIVE ShiftUp(_, _)
ShiftUp(n, d) == IF n >= d THEN 0 ELSE 1 + ShiftUp(2 * n, d)

\* the double nearest to m * 2^e plus a part below the last bit of m: `half`
\* is that part's first bit, `more` says the rest of it is not zero; a tie
\* goes to the even significand
Nearest(m, e, half, more) ==
    LET up == half /\ (more \/ m[3] % 2 = 1)
        n0 == m[3] + (IF up THEN 1 ELSE 0)
        n1 == m[2] + n0 \div Limb
        n2 == m[1] + n1 \div Limb
    IN IF n2 = Pow2(17)
       THEN [m |-> <<Pow2(16), 0, 0>>, e |-> e + 1]
       ELSE [m |-> <<n2, n1 % Limb, n0 % Limb>>, e |-> e]

\* c / t for integers 0 < c < 2^12, 0 < t < 2^12
Double_div(c, t) ==
    LET up == ShiftUp(c, t)
        down == IF c < t THEN 0 ELSE ShiftUp(t, c + 1) - 1
        n == c * Pow2(up)                     \* n / d = c / t * 2^(up - down)
        d == t * Pow2(down)                   \* d <= n < 2 * d
        r0 == n - d
        q1 == (r0 * Limb) \div d
        r1 == (r0 * Limb) % d
        q2 == (r1 * Limb) \div d
        r2 == (r1 * Limb) % d
        q3 == (r2 * Limb) \div d
        r3 == (r2 * Limb) % d
    IN Nearest(<<Pow2(16) + q1 \div 4,
                 (q1 % 4) * Pow2(16) + q2 \div 4,
                 (q2 % 4) * Pow2(16) + q3 \div 4>>,
               (down - up) - 52,
               (q3 \div 2) % 2 = 1,
               q3 % 2 = 1 \/ r3 # 0)

\* x * k for a double x > 0 and an integer 0 < k < 2^12
Double_mul(x, k) ==
    LET p0 == x.m[3] * k
        p1 == x.m[2] * k + p0 \div Limb
        p2 == x.m[1] * k + p1 \div Limb
        l0 == p0 % Limb
        l1 == p1 % Limb
        l2 == p2 % Limb
        l3 == p2 \div Limb
        s == IF l3 = 0 THEN BitLen(l2) - 17 ELSE BitLen(l3) + 1   \* bits to drop
        D == Pow2(s)
        U == Limb \div D
    IN IF s = 0 THEN [m |-> <<l2, l1, l0>>, e |-> x.e]
       ELSE Nearest(<<l2 \div D + l3 * U,
                      l1 \div D + (l2 % D) * U,
                      l0 \div D + (l1 % D) * U>>,
                    x.e + s,
                    (l0 \div (D \div 2)) % 2 = 1,
                    l0 % (D \div 2) # 0)

\* Math.round(x) for a double 0 < x < 2^17: floor(x + 1/2)
Math_round(x) ==
    LET f == 0 - x.e                          \* bits after the point
    IN IF f > 53 THEN 0
       ELSE x.m[1] \div Pow2(f - 36)
              + (IF f = 36 THEN x.m[2] \div Pow2(17)
                 ELSE (x.m[1] \div Pow2(f - 37)) % 2)

\* the real number 100 * a / b rounded to an integer, halves up
RoundHalfUp(a, b) == (200 * a + b) \div (2 * b)

\* Math.round((completed / total) * 100)
Percent(completed, total) ==
    IF total = 0 THEN (IF completed = 0 THEN NaN ELSE Infinity)
    ELSE IF completed = 0 THEN 0
    ELSE Math_round(Double_mul(Double_div(completed, total), 100))

NoLessonCall == [h |-> Null, arg |-> <<>>, code |-> 0]

\* markLessonComplete of student.controller, by enrollment id
markLessonComplete ==
    /\ reqNo < MaxCalls
    /\ reqNo' = reqNo + 1
    /\ LET e == enrollment
           n == e.completedLessons + 1
           code == IF ~e.exists THEN 404
                   ELSE IF e.totalLessons = 0 THEN 400
                   ELSE 200
       IN /\ enrollment' =
                IF code # 200 \/ e.completedLessons >= e.totalLessons THEN e
                ELSE [e EXCEPT
                        !.completedLessons = n,
                        !.progress = Percent(n, e.totalLessons),
                        !.isCompleted = IF n >= e.totalLessons THEN TRUE ELSE @,
                        !.completedAt = IF n >= e.totalLessons THEN reqNo + 1 ELSE @]
          /\ lastCall' = [h |-> "markLessonComplete", arg |-> <<>>, code |-> code]
    /\ UNCHANGED <<lessonProgress, lessonCalls>>
    /\ UNCHANGED <<redisVars, call, db, reqs, courseCommits, courseAcked, quizVars, asgVars>>

\* markLessonComplete of the progress controller, by course and lesson
progress_markLessonComplete(moduleIndex, lessonIndex) ==
    /\ reqNo < MaxCalls
    /\ reqNo' = reqNo + 1
    /\ lastCall' = [h |-> "progress_markLessonComplete",
                    arg |-> <<moduleIndex, lessonIndex>>,
                    code |-> IF enrollment.exists THEN 200 ELSE 403]
    /\ IF ~enrollment.exists
       THEN UNCHANGED <<enrollment, lessonProgress>>
       ELSE LET docs == Progress_upsert(lessonProgress, <<moduleIndex, lessonIndex>>)
                completedLessons == Progress_countDocuments(docs)
                progress == Percent(completedLessons, enrollment.totalLessons)
                isCompleted == progress = 100
            IN /\ lessonProgress' = docs
               /\ enrollment' = [enrollment EXCEPT
                        !.completedLessons = completedLessons,
                        !.progress = progress,
                        !.isCompleted = isCompleted,
                        !.completedAt = IF isCompleted THEN reqNo + 1 ELSE @]
    /\ UNCHANGED lessonCalls
    /\ UNCHANGED <<redisVars, call, db, reqs, courseCommits, courseAcked, quizVars, asgVars>>

-----------------------------------------------------------------------------
(* markLessonComplete with calls overlapping: each handler runs up to its  *)
(* next await, then any other may run.                                     *)

NCallers == 2                     \* callers, each with at most one call in flight
MaxLessonCalls == 3               \* overlapping calls in a behaviour

Callers == 1..NCallers

\* a call: the handler, its place, its arguments, the Enrollment it read,
\* the count it read, its status, and its number (its `new Date()`)
IdleCall ==
    [h |-> Null, pc |-> "idle", arg |-> <<>>, e |-> NoEnrollment,
     n |-> 0, code |-> 0, no |-> 0]

CallAt(i, h, pc) == lessonCalls[i].h = h /\ lessonCalls[i].pc = pc
CallFree(i) == lessonCalls[i].pc \in {"idle", "done"}
SetCall(i, c) == lessonCalls' = [lessonCalls EXCEPT ![i] = c]
Done(c, code) == [c EXCEPT !.pc = "done", !.code = code]

\* student.controller: Enrollment.findOne and what follows it up to save()
markLessonComplete_findOne(i) ==
    /\ CallFree(i)
    /\ reqNo < MaxLessonCalls
    /\ reqNo' = reqNo + 1
    /\ LET e == enrollment
           c == [IdleCall EXCEPT !.h = "markLessonComplete", !.e = e, !.no = reqNo + 1]
       IN SetCall(i,
            IF ~e.exists THEN Done(c, 404)
            ELSE IF e.totalLessons = 0 THEN Done(c, 400)
            ELSE IF e.completedLessons >= e.totalLessons THEN Done(c, 200)
            ELSE [c EXCEPT !.pc = "save"])
    /\ UNCHANGED <<enrollment, lessonProgress, lastCall>>
    /\ UNCHANGED <<redisVars, call, db, reqs, courseCommits, courseAcked, quizVars, asgVars>>

\* enrollment.save() of the document changed in memory: the paths whose
\* value was changed are written, the others are left as stored
markLessonComplete_save(i) ==
    /\ CallAt(i, "markLessonComplete", "save")
    /\ LET c == lessonCalls[i]
           n == c.e.completedLessons + 1
           progress == Percent(n, c.e.totalLessons)
           completes == n >= c.e.totalLessons
       IN /\ enrollment' = [enrollment EXCEPT
                !.completedLessons = n,
                !.progress = IF progress # c.e.progress THEN progress ELSE @,
                !.isCompleted = IF completes THEN TRUE ELSE @,
                !.completedAt = IF completes THEN c.no ELSE @]
          /\ SetCall(i, Done(c, 200))
    /\ UNCHANGED <<lessonProgress, lastCall, reqNo>>
    /\ UNCHANGED <<redisVars, call, db, reqs, courseCommits, courseAcked, quizVars, asgVars>>

\* the progress controller: Enrollment.findOne
progress_findOne(i, moduleIndex, lessonIndex) ==
    /\ CallFree(i)
    /\ reqNo < MaxLessonCalls
    /\ reqNo' = reqNo + 1
    /\ LET c == [IdleCall EXCEPT !.h = "progress_markLessonComplete",
                                 !.arg = <<moduleIndex, lessonIndex>>,
                                 !.e = enrollment, !.no = reqNo + 1]
       IN SetCall(i, IF ~enrollment.exists THEN Done(c, 403)
                     ELSE [c EXCEPT !.pc = "findOneAndUpdate"])
    /\ UNCHANGED <<enrollment, lessonProgress, lastCall>>
    /\ UNCHANGED <<redisVars, call, db, reqs, courseCommits, courseAcked, quizVars, asgVars>>

\* Progress.findOneAndUpdate(..., {upsert: true}), the query: a document
\* found is set to the values it has, none found is to be inserted
progress_findOneAndUpdate(i) ==
    /\ CallAt(i, "progress_markLessonComplete", "findOneAndUpdate")
    /\ LET c == lessonCalls[i]
       IN SetCall(i, [c EXCEPT !.pc = IF lessonProgress[c.arg] > 0
                                      THEN "countDocuments" ELSE "insert"])
    /\ UNCHANGED <<enrollment, lessonProgress, lastCall, reqNo>>
    /\ UNCHANGED <<redisVars, call, db, reqs, courseCommits, courseAcked, quizVars, asgVars>>

\* the insert of the upsert.  The unique index refuses it when another call
\* has inserted the key since the query; the server then runs the upsert
\* again or hands the duplicate-key error (E11000) to the caller, whose
\* catch passes it to next(error)
progress_insert(i) ==
    /\ CallAt(i, "progress_markLessonComplete", "insert")
    /\ LET c == lessonCalls[i]
       IN IF UniqueIndex(lessonProgress, c.arg)
          THEN /\ lessonProgress' = [lessonProgress EXCEPT ![c.arg] = @ + 1]
               /\ SetCall(i, [c EXCEPT !.pc = "countDocuments"])
          ELSE /\ UNCHANGED lessonProgress
               /\ \E retried \in BOOLEAN :
                    SetCall(i, IF retried THEN [c EXCEPT !.pc = "findOneAndUpdate"]
                               ELSE Done(c, 500))
    /\ UNCHANGED <<enrollment, lastCall, reqNo>>
    /\ UNCHANGED <<redisVars, call, db, reqs, courseCommits, courseAcked, quizVars, asgVars>>

progress_countDocuments(i) ==
    /\ CallAt(i, "progress_markLessonComplete", "countDocuments")
    /\ SetCall(i, [lessonCalls[i] EXCEPT
                    !.pc = "findByIdAndUpdate",
                    !.n = Progress_countDocuments(lessonProgress)])
    /\ UNCHANGED <<enrollment, lessonProgress, lastCall, reqNo>>
    /\ UNCHANGED <<redisVars, call, db, reqs, courseCommits, courseAcked, quizVars, asgVars>>

\* Enrollment.findByIdAndUpdate with the count read and the totalLessons of
\* the Enrollment read at the start
progress_findByIdAndUpdate(i) ==
    /\ CallAt(i, "progress_markLessonComplete", "findByIdAndUpdate")
    /\ LET c == lessonCalls[i]
           progress == Percent(c.n, c.e.totalLessons)
           isCompleted == progress = 100
       IN /\ enrollment' = [enrollment EXCEPT
                !.completedLessons = c.n,
                !.progress = progress,
                !.isCompleted = isCompleted,
                !.completedAt = IF isCompleted THEN c.no ELSE @]
          /\ SetCall(i, Done(c, 200))
    /\ UNCHANGED <<lessonProgress, lastCall, reqNo>>
    /\ UNCHANGED <<redisVars, call, db, reqs, courseCommits, courseAcked, quizVars, asgVars>>

(* Assignments, handler by handler and await by await: createAssignment    *)
(* and reviewAssignment of adminAssignment.controller, reviewAssignment,   *)
(* submitAssignment and getAssignmentById of assignment.controller,        *)
(* reviewAssignment of admin.controller.  One course is followed.          *)

MaxAssignments == 3               \* Assignment documents the collection holds
MaxAsgCalls == 3                  \* assignment requests a behaviour makes
AsgSlots == 1..MaxAssignments     \* the _id values, in order of creation
PupilSeq == <<"s1", "s2">>        \* the users with role student, as find lists them
Pupils == {PupilSeq[k] : k \in 1..Len(PupilSeq)}
Staff == {"a1"}                   \* a user with another role
Titles == {"t1", "t2"}            \* title, with description, module and due date
CourseBatch == "b1"               \* course.batch.name
OtherBatch == "b2"                \* a batch name the course does not have

\* review: absent, or what one review call wrote.  The feedback is named by
\* the call that sent it, reviewedAt is the time of that call
NoReview == [feedback |-> 0, reviewedBy |-> Null, reviewedAt |-> 0]
Review(feedback, reviewedBy, reviewedAt) ==
    [feedback |-> feedback, reviewedBy |-> reviewedBy, reviewedAt |-> reviewedAt]

NoAssignment ==
    [exists |-> FALSE, student |-> NoStudent, batch |-> Null, title |-> Null,
     status |-> "none", submission |-> 0, review |-> NoReview]
Assignment(student, batch, title, status, submission) ==
    [exists |-> TRUE, student |-> student, batch |-> batch, title |-> title,
     status |-> status, submission |-> submission, review |-> NoReview]

\* a call in flight: the handler, where it stands, who calls, the document it
\* loaded (id and content), its time, and what it answered
IdleAsgCall ==
    [h |-> Null, pc |-> "idle", actor |-> Null, id |-> 0, title |-> Null,
     batch |-> Null, doc |-> NoAssignment, no |-> 0, code |-> 0, count |-> 0 - 1]
AsgCallFree(i) == asgCalls[i].pc \in {"idle", "done"}
AsgCallAt(i, h, pc) == asgCalls[i].h = h /\ asgCalls[i].pc = pc
AsgCall(h, actor, id, title) ==
    [IdleAsgCall EXCEPT !.h = h, !.actor = actor, !.id = id, !.title = title,
                        !.no = reqNo + 1]
AsgDone(c, code) == [c EXCEPT !.pc = "done", !.code = code]
AsgOthers ==
    /\ UNCHANGED <<strictQuery, batchStudents, enrVars>>
    /\ UNCHANGED <<redisVars, call, db, reqs, courseCommits, courseAcked>>
    /\ UNCHANGED <<enrollment, lessonProgress, lastCall, lessonCalls, quizVars>>
\* a request starts: it takes the next time, caller i is free
AsgStart(i) ==
    /\ reqNo < MaxAsgCalls
    /\ AsgCallFree(i)
    /\ reqNo' = reqNo + 1

\* Enrolment, await by await: enrollInCourse (POST /api/student/enroll/:id)
\* and enrollCourse; the Enrollment collection has a unique index on
\* {student, course}.
MaxEnrollCalls == 3               \* enrolment requests a behaviour makes
EnrollCourses == {"c1", "c2"}     \* the ids requests carry; c2 has no document
\* Course.findById: the document, NoDoc when there is none
Course_findById(id) == IF id \in CourseIds THEN db.courses[id] ELSE NoDoc
\* course.modules of a course body: the number of lessons of each module
Course_modules(doc) == IF doc = "b1" THEN <<1>> ELSE <<2, 1>>
RECURSIVE SumLessons(_)
SumLessons(modules) ==
    IF modules = <<>> THEN 0 ELSE Head(modules) + SumLessons(Tail(modules))
\* a count of the modules in place of their lessons
Course_totalLessons_modules(doc) == Len(Course_modules(doc))
\* the sum of the lessons of the course's modules
Course_totalLessons(doc) == SumLessons(Course_modules(doc))
\* the status a duplicate-key error of Enrollment.create is answered with
\* (the error middleware decides)
DuplicateKeyCodes == {400, 500}

\* the document Enrollment.create makes
NewEnrollment(student, course, totalLessons) ==
    [student |-> student, course |-> course, totalLessons |-> totalLessons,
     progress |-> 0, completedLessons |-> 0, isCompleted |-> FALSE]
IdleEnrollCall ==
    [h |-> Null, pc |-> "idle", student |-> Null, course |-> Null,
     doc |-> NoDoc, totalLessons |-> 0, at |-> Null, code |-> 0]
EnrollCall(h, student, course) ==
    [IdleEnrollCall EXCEPT !.h = h, !.student = student, !.course = course]
EnrollDone(c, at, code) == [c EXCEPT !.pc = "done", !.at = at, !.code = code]
EnrollCallAt(i, h, pc) == enrollCalls[i].h = h /\ enrollCalls[i].pc = pc
EnrollIdle ==
    /\ enrollments = <<>>
    /\ enrollCalls = [i \in Callers |-> IdleEnrollCall]
EnrollOthers ==
    /\ UNCHANGED <<assignments, asgCalls, strictQuery, batchStudents>>
    /\ UNCHANGED <<redisVars, call, db, reqs, courseCommits, courseAcked>>
    /\ UNCHANGED <<enrollment, lessonProgress, lastCall, lessonCalls, quizVars>>
EnrollStart(i) ==
    /\ reqNo < MaxEnrollCalls
    /\ enrollCalls[i].pc \in {"idle", "done"}
    /\ reqNo' = reqNo + 1

\* Enrollment.findOne({student, course}) finds a document
Enrollment_findOne(docs, student, course) ==
    \E k \in 1..Len(docs) : docs[k].student = student /\ docs[k].course = course
\* the unique index {student: 1, course: 1} admits the insert
Enrollment_unique_none(docs, doc) == TRUE
Enrollment_unique(docs, doc) == ~Enrollment_findOne(docs, doc.student, doc.course)

\* enrollInCourse: findOne first ...
enrollInCourse_findOne(i, student, course) ==
    /\ EnrollStart(i)
    /\ LET c == EnrollCall("enrollInCourse", student, course)
       IN  enrollCalls' = [enrollCalls EXCEPT ![i] =
              IF Enrollment_findOne(enrollments, student, course)
              THEN EnrollDone(c, "findOne", 400)
              ELSE [c EXCEPT !.pc = "findById"]]
    /\ UNCHANGED enrollments
    /\ EnrollOthers
\* ... then Course.findById and the lessons' count ...
enrollInCourse_findById(i) ==
    /\ EnrollCallAt(i, "enrollInCourse", "findById")
    /\ LET c == enrollCalls[i]
           doc == Course_findById(c.course)
       IN  enrollCalls' = [enrollCalls EXCEPT ![i] =
              IF doc = NoDoc
              THEN EnrollDone(c, "findById", 404)
              ELSE [c EXCEPT !.pc = "create", !.doc = doc,
                             !.totalLessons = Course_totalLessons(doc)]]
    /\ UNCHANGED <<enrollments, reqNo>>
    /\ EnrollOthers
\* enrollCourse: Course.findById first ...
enrollCourse_findById(i, student, course) ==
    /\ EnrollStart(i)
    /\ LET c == EnrollCall("enrollCourse", student, course)
           doc == Course_findById(course)
       IN  enrollCalls' = [enrollCalls EXCEPT ![i] =
              IF doc = NoDoc
              THEN EnrollDone(c, "findById", 404)
              ELSE [c EXCEPT !.pc = "findOne", !.doc = doc,
                             !.totalLessons = Course_totalLessons(doc)]]
    /\ UNCHANGED enrollments
    /\ EnrollOthers
\* ... then findOne ...
enrollCourse_findOne(i) ==
    /\ EnrollCallAt(i, "enrollCourse", "findOne")
    /\ LET c == enrollCalls[i]
       IN  enrollCalls' = [enrollCalls EXCEPT ![i] =
              IF Enrollment_findOne(enrollments, c.student, c.course)
              THEN EnrollDone(c, "findOne", 400)
              ELSE [c EXCEPT !.pc = "create"]]
    /\ UNCHANGED <<enrollments, reqNo>>
    /\ EnrollOthers
\* ... and both end with Enrollment.create: 201, or the duplicate-key error
\* of the index goes to next(error)
Enrollment_create(i) ==
    /\ enrollCalls[i].pc = "create"
    /\ LET c == enrollCalls[i]
           doc == NewEnrollment(c.student, c.course, c.totalLessons)
       IN  IF Enrollment_unique(enrollments, doc)
           THEN /\ enrollments' = Append(enrollments, doc)
                /\ enrollCalls' = [enrollCalls EXCEPT ![i] = EnrollDone(c, "create", 201)]
           ELSE /\ UNCHANGED enrollments
                /\ \E code \in DuplicateKeyCodes :
                      enrollCalls' = [enrollCalls EXCEPT ![i] = EnrollDone(c, "create", code)]
    /\ UNCHANGED reqNo
    /\ EnrollOthers
\* markLessonComplete saves an enrolment with one more completed lesson
Enrollment_saveProgress(k) ==
    /\ k \in 1..Len(enrollments)
    /\ enrollments[k].completedLessons < enrollments[k].totalLessons
    /\ LET e == enrollments[k]
           n == e.completedLessons + 1
       IN  enrollments' = [enrollments EXCEPT ![k] =
              [e EXCEPT !.completedLessons = n,
                        !.progress = Percent(n, e.totalLessons),
                        !.isCompleted = (n = e.totalLessons)]]
    /\ UNCHANGED <<enrollCalls, reqNo>>
    /\ EnrollOthers

AsgIdle ==
    /\ assignments = [g \in AsgSlots |-> NoAssignment]
    /\ EnrollIdle
    /\ asgCalls = [i \in Callers |-> IdleAsgCall]
    /\ strictQuery = FALSE
    /\ batchStudents = {}

FreeSlots(docs) == {g \in AsgSlots : ~docs[g].exists}
\* Assignment.create: the document gets the next _id
Assignment_create(docs, doc) ==
    LET g == CHOOSE x \in FreeSlots(docs) : \A y \in FreeSlots(docs) : x <= y
    IN  [docs EXCEPT ![g] = doc]
\* students.map(student => Assignment.create({...})), for those that succeed
RECURSIVE Assignment_createAll(_, _, _, _, _)
Assignment_createAll(docs, k, created, batch, title) ==
    IF k > Len(PupilSeq) THEN docs
    ELSE Assignment_createAll(
             IF PupilSeq[k] \in created
             THEN Assignment_create(docs,
                      Assignment(PupilSeq[k], batch, title, "pending", 0))
             ELSE docs,
             k + 1, created, batch, title)

\* User.find({ role: 'student', batch }): the User schema has no batch path.
\* With strictQuery the filter loses the condition and every student matches;
\* without it the condition stays and no user document has the field
User_find_batch(batch) == IF strictQuery THEN Pupils ELSE {}

\* POST /api/admin/assignments with a batch.  Promise.all: every create is
\* issued; the handler answers 201 with the count when all of them succeed
\* and hands the first failure to next(error) otherwise
createAssignment_batch(i, batch, title) ==
    /\ AsgStart(i)
    /\ LET c == [AsgCall("createAssignment", "a1", 0, title) EXCEPT !.batch = batch]
           students == User_find_batch(batch)
       IN  IF batch # CourseBatch
           THEN /\ asgCalls' = [asgCalls EXCEPT ![i] = AsgDone(c, 404)]
                /\ UNCHANGED assignments
           ELSE /\ Cardinality(students) <= Cardinality(FreeSlots(assignments))
                /\ \E created \in SUBSET students :
                     /\ assignments' =
                          Assignment_createAll(assignments, 1, created, batch, title)
                     /\ asgCalls' = [asgCalls EXCEPT ![i] =
                          IF created = students
                          THEN [AsgDone(c, 201) EXCEPT !.count = Cardinality(students)]
                          ELSE AsgDone(c, 500)]
    /\ AsgOthers

\* POST /api/admin/assignments without a batch: one template, no student
createAssignment_template(i, title) ==
    /\ AsgStart(i)
    /\ FreeSlots(assignments) # {}
    /\ assignments' = Assignment_create(assignments,
                          Assignment(NoStudent, Null, title, "pending", 0))
    /\ asgCalls' = [asgCalls EXCEPT ![i] =
                        AsgDone(AsgCall("createAssignment", "a1", 0, title), 201)]
    /\ AsgOthers

\* the assignment findOne gives a student for a title: their own or one
\* without a student, the first in the collection
submitAssignment_found(docs, actor, title) ==
    {g \in AsgSlots :
        /\ docs[g].exists
        /\ docs[g].title = title
        /\ docs[g].student \in {actor, NoStudent}}

\* POST /api/assignments: role check and Assignment.findOne
submitAssignment_findOne(i, actor, title) ==
    /\ AsgStart(i)
    /\ LET c == AsgCall("submitAssignment", actor, 0, title)
           found == submitAssignment_found(assignments, actor, title)
       IN  asgCalls' = [asgCalls EXCEPT ![i] =
               IF actor \notin Pupils THEN AsgDone(c, 403)
               ELSE IF found = {} THEN [c EXCEPT !.pc = "create"]
               ELSE LET g == CHOOSE x \in found : \A y \in found : x <= y
                    IN  [c EXCEPT !.pc = "save", !.id = g, !.doc = assignments[g]]]
    /\ UNCHANGED assignments
    /\ AsgOthers

\* ... no assignment matched: Assignment.create with the submission
submitAssignment_create(i) ==
    /\ AsgCallAt(i, "submitAssignment", "create")
    /\ FreeSlots(assignments) # {}
    /\ LET c == asgCalls[i]
       IN  /\ assignments' = Assignment_create(assignments,
                  Assignment(c.actor, Null, c.title, "submitted", c.no))
           /\ asgCalls' = [asgCalls EXCEPT ![i] = AsgDone(c, 200)]
    /\ UNCHANGED reqNo
    /\ AsgOthers

\* ... one matched: student, submission and status are assigned and saved;
\* save() writes the paths whose value differs from the loaded document
submitAssignment_save(i) ==
    /\ AsgCallAt(i, "submitAssignment", "save")
    /\ LET c == asgCalls[i]
       IN  /\ assignments' = [assignments EXCEPT ![c.id] =
                  [@ EXCEPT !.student = c.actor,
                            !.submission = c.no,
                            !.status = IF c.doc.status # "submitted"
                                       THEN "submitted" ELSE @]]
           /\ asgCalls' = [asgCalls EXCEPT ![i] = AsgDone(c, 200)]
    /\ UNCHANGED reqNo
    /\ AsgOthers

\* a save that writes review.feedback only when the loaded document has none
Assignment_saveReview_merge(docs, c) ==
    [docs EXCEPT ![c.id] =
        [@ EXCEPT !.review = Review(IF c.doc.review = NoReview
                                    THEN c.no ELSE @.feedback, c.actor, c.no),
                  !.status = IF c.doc.status # "reviewed" THEN "reviewed" ELSE @]]
\* assignment.review = {...}; assignment.status = 'reviewed'; save(): the
\* review is written whole, the status when it differs from the loaded one
Assignment_saveReview(docs, c) ==
    [docs EXCEPT ![c.id] =
        [@ EXCEPT !.review = Review(c.no, c.actor, c.no),
                  !.status = IF c.doc.status # "reviewed" THEN "reviewed" ELSE @]]

\* PUT /api/assignments/:id/review: role check and Assignment.findById
reviewAssignment_findById(i, actor, id) ==
    /\ AsgStart(i)
    /\ LET c == AsgCall("reviewAssignment", actor, id, Null)
       IN  asgCalls' = [asgCalls EXCEPT ![i] =
               IF actor \in Pupils THEN AsgDone(c, 403)
               ELSE IF ~assignments[id].exists THEN AsgDone(c, 404)
               ELSE [c EXCEPT !.pc = "save", !.doc = assignments[id]]]
    /\ UNCHANGED assignments
    /\ AsgOthers

reviewAssignment_save(i) ==
    /\ AsgCallAt(i, "reviewAssignment", "save")
    /\ assignments' = Assignment_saveReview(assignments, asgCalls[i])
    /\ asgCalls' = [asgCalls EXCEPT ![i] = AsgDone(@, 200)]
    /\ UNCHANGED reqNo
    /\ AsgOthers

\* PUT /api/admin/assignments/:id/review of adminAssignment.controller:
\* Assignment.findById and the status check
adminAssignment_reviewAssignment_findById(i, actor, id) ==
    /\ AsgStart(i)
    /\ LET c == AsgCall("adminAssignment_reviewAssignment", actor, id, Null)
       IN  asgCalls' = [asgCalls EXCEPT ![i] =
               IF ~assignments[id].exists THEN AsgDone(c, 404)
               ELSE IF assignments[id].status # "submitted" THEN AsgDone(c, 400)
               ELSE [c EXCEPT !.pc = "save", !.doc = assignments[id]]]
    /\ UNCHANGED assignments
    /\ AsgOthers

adminAssignment_reviewAssignment_save(i) ==
    /\ AsgCallAt(i, "adminAssignment_reviewAssignment", "save")
    /\ assignments' = Assignment_saveReview(assignments, asgCalls[i])
    /\ asgCalls' = [asgCalls EXCEPT ![i] = AsgDone(@, 200)]
    /\ UNCHANGED reqNo
    /\ AsgOthers

\* PUT /api/admin/assignments/:id/review of admin.controller: one
\* findByIdAndUpdate sets review and status
admin_reviewAssignment_findByIdAndUpdate(i, actor, id) ==
    /\ AsgStart(i)
    /\ LET c == AsgCall("admin_reviewAssignment", actor, id, Null)
       IN  IF ~assignments[id].exists
           THEN /\ asgCalls' = [asgCalls EXCEPT ![i] = AsgDone(c, 404)]
                /\ UNCHANGED assignments
           ELSE /\ assignments' = [assignments EXCEPT ![id] =
                       [@ EXCEPT !.review = Review(c.no, actor, c.no),
                                 !.status = "reviewed"]]
                /\ asgCalls' = [asgCalls EXCEPT ![i] =
                       AsgDone([c EXCEPT !.doc = assignments[id]], 200)]
    /\ AsgOthers

\* GET /api/assignments/:id: the document one findById returns
getAssignmentById(i, actor, id) ==
    /\ AsgStart(i)
    /\ LET c == AsgCall("getAssignmentById", actor, id, Null)
           doc == assignments[id]
       IN  asgCalls' = [asgCalls EXCEPT ![i] =
               IF ~doc.exists THEN AsgDone(c, 404)
               ELSE IF actor \in Pupils /\ doc.student # NoStudent /\ doc.student # actor
               THEN AsgDone(c, 403)
               ELSE AsgDone([c EXCEPT !.doc = doc], 200)]
    /\ UNCHANGED assignments
    /\ AsgOthers

-----------------------------------------------------------------------------
(* Quizzes: Quiz.model, QuizResult.model, adminQuiz.controller and          *)
(* quiz.controller.  One quiz id and one student are followed.             *)

MaxQuestions == 2                 \* questions a quiz holds
MaxQuizCalls == 2                 \* quiz requests a behaviour makes
Options == 0..1                   \* the option indices a question offers
PassingScores == {0, 50}          \* values of passingScore within min 0, max 100
Undefined == 0 - 1                \* a field the request body or document lacks

\* a || b on numbers: 0 and undefined are falsy
OrElse(a, b) == IF a = Undefined \/ a = 0 THEN b ELSE a

\* quizQuestionSchema keeps question, options and correctAnswer only
QuizQuestion(correctAnswer) == [correctAnswer |-> correctAnswer]
QuestionLists ==
    UNION {[1..n -> {QuizQuestion(a) : a \in Options}] : n \in 0..MaxQuestions}
\* req.body.answers: an array with up to one entry more than the questions
AnswerLists == UNION {[1..n -> Options] : n \in 0..(MaxQuestions + 1)}

\* id counts the quizzes created so far: an _id is never given twice
NoQuiz ==
    [exists |-> FALSE, id |-> 0, course |-> Null, questions |-> <<>>,
     passingScore |-> 70]
QuizDoc(course, questions, passingScore) ==
    [exists |-> TRUE, id |-> 1, course |-> course, questions |-> questions,
     passingScore |-> passingScore]

NoResult == [score |-> 0, totalPoints |-> 0, percentage |-> 0, passed |-> FALSE]
NoQuizCall == [h |-> Null, answers |-> <<>>, code |-> 0, result |-> NoResult]
QuizCall(h, code) == [h |-> h, answers |-> <<>>, code |-> code, result |-> NoResult]

QuizIdle ==
    /\ quiz = NoQuiz
    /\ quizResults = <<>>
    /\ quizCall = NoQuizCall

\* POST /api/admin/quizzes
createQuiz(courseId, questions, passingScore) ==
    /\ reqNo < MaxQuizCalls
    /\ ~quiz.exists
    /\ IF courseId # Null /\ db.courses[courseId] = NoDoc
       THEN /\ quizCall' = QuizCall("createQuiz", 404)
            /\ UNCHANGED quiz
       ELSE /\ quiz' = [QuizDoc(courseId, questions, OrElse(passingScore, 70))
                            EXCEPT !.id = quiz.id + 1]
            /\ quizCall' = QuizCall("createQuiz", 201)
    /\ reqNo' = reqNo + 1
    /\ UNCHANGED <<quizResults, enrollment, lessonProgress, lastCall, lessonCalls>>
    /\ UNCHANGED <<redisVars, call, db, reqs, courseCommits, courseAcked, asgVars>>

\* PUT /api/admin/quizzes/:id; questions is set when the body has the field
updateQuiz(setQuestions, questions, passingScore) ==
    /\ reqNo < MaxQuizCalls
    /\ IF ~quiz.exists
       THEN /\ quizCall' = QuizCall("updateQuiz", 404)
            /\ UNCHANGED quiz
       ELSE /\ quiz' = [quiz EXCEPT
                    !.questions = IF setQuestions THEN questions ELSE @,
                    !.passingScore = IF passingScore # Undefined
                                     THEN passingScore ELSE @]
            /\ quizCall' = QuizCall("updateQuiz", 200)
    /\ reqNo' = reqNo + 1
    /\ UNCHANGED <<quizResults, enrollment, lessonProgress, lastCall, lessonCalls>>
    /\ UNCHANGED <<redisVars, call, db, reqs, courseCommits, courseAcked, asgVars>>

\* DELETE /api/admin/quizzes/:id
deleteQuiz ==
    /\ reqNo < MaxQuizCalls
    /\ IF ~quiz.exists
       THEN /\ quizCall' = QuizCall("deleteQuiz", 404)
            /\ UNCHANGED quiz
       ELSE /\ quiz' = [NoQuiz EXCEPT !.id = quiz.id]
            /\ quizCall' = QuizCall("deleteQuiz", 200)
    /\ reqNo' = reqNo + 1
    /\ UNCHANGED <<quizResults, enrollment, lessonProgress, lastCall, lessonCalls>>
    /\ UNCHANGED <<redisVars, call, db, reqs, courseCommits, courseAcked, asgVars>>

\* a missing entry read as option 0
Selected_holes(answers, index) ==
    IF index <= Len(answers) THEN answers[index] ELSE 0

\* answers[index]: undefined past the end of the array
Selected(answers, index) ==
    IF index <= Len(answers) THEN answers[index] ELSE Undefined
\* question.points || 1
QuestionPoints(question) ==
    OrElse(IF "points" \in DOMAIN question THEN question.points ELSE Undefined, 1)

\* quiz.questions.reduce((sum, q) => sum + (q.points || 1), 0)
RECURSIVE TotalPoints(_)
TotalPoints(questions) ==
    IF questions = <<>> THEN 0
    ELSE TotalPoints(SubSeq(questions, 1, Len(questions) - 1))
            + QuestionPoints(questions[Len(questions)])

\* the score the map over quiz.questions accumulates
RECURSIVE Score(_, _)
Score(questions, answers) ==
    IF questions = <<>> THEN 0
    ELSE LET index == Len(questions)
             isCorrect == Selected(answers, index) = questions[index].correctAnswer
         IN  Score(SubSeq(questions, 1, index - 1), answers)
                + (IF isCorrect THEN QuestionPoints(questions[index]) ELSE 0)

\* the values submitQuiz computes for one quiz and one answers array
QuizScore(q, answers) ==
    LET score == Score(q.questions, answers)
        totalPoints == TotalPoints(q.questions)
        percentage == Percent(score, totalPoints)
    IN  [score |-> score, totalPoints |-> totalPoints, percentage |-> percentage,
         passed |-> percentage >= OrElse(q.passingScore, 70)]

\* the document QuizResult.create stores: the quiz it references and the values
QuizResultDoc(q, result) ==
    [quiz |-> q.id, score |-> result.score, totalPoints |-> result.totalPoints,
     percentage |-> result.percentage, passed |-> result.passed]
\* a create that refuses a document equal to a stored one
QuizResult_create_unique(docs, doc) ==
    IF \E k \in 1..Len(docs) : docs[k] = doc THEN docs ELSE Append(docs, doc)
\* QuizResult.create: one more document, whatever the collection holds
QuizResult_create(docs, doc) == Append(docs, doc)

\* QuizResult validation: course is required, percentage must cast to a Number
QuizResult_valid(q, result) == q.course # Null /\ result.percentage # NaN

\* a check that is never taken
Quiz_notFound_skipped(q) == FALSE
\* if (!quiz): Quiz.findById gave no document
Quiz_notFound(q) == ~q.exists

\* POST /:id/submit
submitQuiz(answers) ==
    /\ reqNo < MaxQuizCalls
    /\ IF Quiz_notFound(quiz)
       THEN /\ quizCall' = [QuizCall("submitQuiz", 404) EXCEPT !.answers = answers]
            /\ UNCHANGED quizResults
       ELSE \E result \in {QuizScore(quiz, answers)} :
                IF QuizResult_valid(quiz, result)
                THEN /\ quizResults' = QuizResult_create(quizResults,
                                                          QuizResultDoc(quiz, result))
                     /\ quizCall' = [h |-> "submitQuiz", answers |-> answers,
                                     code |-> 200, result |-> result]
                ELSE /\ quizCall' = [h |-> "submitQuiz", answers |-> answers,
                                     code |-> 500, result |-> result]
                     /\ UNCHANGED quizResults
    /\ reqNo' = reqNo + 1
    /\ UNCHANGED <<quiz, enrollment, lessonProgress, lastCall, lessonCalls>>
    /\ UNCHANGED <<redisVars, call, db, reqs, courseCommits, courseAcked, asgVars>>

-----------------------------------------------------------------------------
\* no enrollment activity (the other specifications)
ProgressIdle ==
    /\ enrollment = NoEnrollment
    /\ lessonProgress = NoProgress
    /\ lastCall = NoLessonCall
    /\ lessonCalls = [i \in Callers |-> IdleCall]
    /\ QuizIdle
    /\ AsgIdle

-----------------------------------------------------------------------------
(* Running a request.                                                      *)

Running(i) == reqs[i].status = "run"
Cur(i) == Program(reqs[i])[reqs[i].pc]
At(i, op) == Running(i) /\ Cur(i).op = op
CacheAvailable == CacheUsable /\ serverUp

Advance(r) == [r EXCEPT !.pc = @ + 1]
\* next(error) / throw new AppError: the request ends without success
Failed(r, code, err) ==
    [r EXCEPT !.status = "fail", !.code = code, !.err = err, !.pc = 0, !.keys = {}]
Succeeded(r, code) ==
    [r EXCEPT !.status = "ok", !.code = code, !.pc = 0, !.keys = {}]
\* what a read handler serializes into the cache: the body, and for whom and
\* from which state of the courses collection it was computed
Response(r) ==
    [body |-> Fresh(r), forUser |-> r.actor, asRole |-> r.role, asOf |-> courseCommits]

SetReq(i, r) == reqs' = [reqs EXCEPT ![i] = r]

\* a fresh document id is one no document has and no running request will use
Creates(h) == h \in {"createCourse", "createAssignment", "submitAssignment"}
FreshId(h, p) ==
    /\ h = "createCourse" => db.courses[p.target] = NoDoc
    /\ h \in {"createAssignment", "submitAssignment"} => db.assignments[p.target] = NoAsg
    /\ \A j \in Slots : Running(j) /\ Creates(reqs[j].h) => reqs[j].target # p.target

\* startServer: app.listen follows `await connectRedis()`
Listening == ~configured \/ client

StartRequest(i, h) ==
    /\ Listening
    /\ ~Running(i)
    /\ \E p \in ParamSet(h) :
        /\ Creates(h) => FreshId(h, p)
        /\ SetReq(i, Request(h, p.actor, p.target, p.arg, reqNo + 1))
    /\ reqNo' = reqNo + 1
    /\ UNCHANGED <<redisVars, call, lmsVars, db, courseCommits, courseAcked>>

\* authorize(...roles) and the role checks at the head of a handler run
\* synchronously once protect calls next(): 403 on the first that refuses
RECURSIVE Gates(_)
Gates(r) ==
    LET c == Program(r)[r.pc]
    IN IF c.op = "authorize"
       THEN IF r.role \in c.a THEN Gates(Advance(r)) ELSE Failed(r, 403, "auth")
       ELSE IF c.op = "deny"
       THEN IF r.role \in c.a THEN Failed(r, 403, "auth") ELSE Gates(Advance(r))
       ELSE r

\* protect: the token's user must exist and be active; lastLogin is saved
DoProtect(i) ==
    /\ At(i, "protect")
    /\ LET r == reqs[i]
           u == db.users[r.actor]
       IN IF u = NoUser \/ ~u.isActive
          THEN SetReq(i, Failed(r, 401, "auth")) /\ UNCHANGED db
          ELSE /\ db' = [db EXCEPT !.users[r.actor].lastLogin = r.no]
               /\ SetReq(i, Gates([Advance(r) EXCEPT !.role = u.role]))
    /\ UNCHANGED <<redisVars, call, lmsVars, reqNo, courseCommits, courseAcked>>

\* const cachedData = await redisClient.get(cacheKey); if (cachedData) respond
DoCacheGet(i) ==
    /\ At(i, "cacheGet")
    /\ LET r == [reqs[i] EXCEPT !.blind = @ /\ ~CacheAvailable]
           g == RedisClient_get(Cur(i).a)
       IN SetReq(i, IF g.threw THEN Failed(r, 500, "cache")
                    ELSE IF g.value # None
                         THEN [Succeeded(r, 200) EXCEPT !.resp = g.value, !.src = "cache"]
                         ELSE Advance(r))
    /\ UNCHANGED <<redisVars, call, lmsVars, db, reqNo, courseCommits, courseAcked>>

\* the queries of a read handler; a database error ends the request
DoDbRead(i) ==
    /\ At(i, "dbRead")
    /\ LET r == reqs[i]
       IN \E dbOk \in BOOLEAN :
            SetReq(i, IF ~dbOk THEN Failed(r, 500, "db")
                      ELSE IF FreshCode(r) # 200 THEN Failed(r, FreshCode(r), "app")
                      ELSE [Advance(r) EXCEPT !.resp = Some(Response(r)), !.src = "db"])
    /\ UNCHANGED <<redisVars, call, lmsVars, db, reqNo, courseCommits, courseAcked>>

DoCacheSet(i) ==
    /\ At(i, "cacheSet")
    /\ LET r == [reqs[i] EXCEPT !.blind = @ /\ ~CacheAvailable]
           s == RedisClient_set(Cur(i).a, r.resp)
       IN /\ store' = s.store
          /\ SetReq(i, IF s.threw THEN Failed(r, 500, "cache") ELSE Advance(r))
    /\ UNCHANGED <<configured, client, isConnected, serverUp>>
    /\ UNCHANGED <<call, lmsVars, db, reqNo, courseCommits, courseAcked>>

\* the write of a mutating handler: it stops early with an error status, the
\* database refuses it, or it commits
DoDbWrite(i) ==
    /\ At(i, "dbWrite")
    /\ LET r == reqs[i]
           w == Write(r)
           n == IF r.h \in CourseWrites THEN courseCommits + 1 ELSE courseCommits
       IN \E dbOk \in BOOLEAN :
            IF w.code # 0
            THEN /\ SetReq(i, Failed(r, w.code, "app"))
                 /\ UNCHANGED <<db, courseCommits>>
            ELSE IF ~dbOk
            THEN /\ SetReq(i, Failed(r, 500, "db"))
                 /\ UNCHANGED <<db, courseCommits>>
            ELSE /\ db' = w.db
                 /\ courseCommits' = n
                 /\ SetReq(i, [Advance(r) EXCEPT !.wrote = TRUE,
                        !.log = Append(@, "write"),
                        !.commit = IF r.h \in CourseWrites THEN n ELSE 0])
    /\ UNCHANGED <<redisVars, call, lmsVars, reqNo, courseAcked>>

\* await redisClient.delPattern(pattern), up to client.keys
DoDelPatternKeys(i) ==
    /\ At(i, "delPattern")
    /\ reqs[i].keys = {}
    /\ LET r == [reqs[i] EXCEPT !.blind = @ /\ ~CacheAvailable,
                                !.purged = @ \cup {Cur(i).a},
                                !.log = Append(@, "purge")]
           k == RedisClient_delPattern_keys(Cur(i).a)
       IN SetReq(i, IF k.threw THEN Failed(r, 500, "cache")
                    ELSE IF k.keys = {} THEN [Advance(r) EXCEPT !.log = Append(@, "purged")]
                    ELSE [r EXCEPT !.keys = k.keys])
    /\ UNCHANGED <<redisVars, call, lmsVars, db, reqNo, courseCommits, courseAcked>>

\* await redisClient.delPattern(pattern), the client.del(keys)
DoDelPatternDel(i) ==
    /\ At(i, "delPattern")
    /\ reqs[i].keys # {}
    /\ LET r == [reqs[i] EXCEPT !.keys = {}, !.blind = @ /\ ~serverUp]
           d == RedisClient_delPattern_del(reqs[i].keys)
       IN /\ store' = d.store
          /\ SetReq(i, IF d.threw THEN Failed(r, 500, "cache")
                       ELSE [Advance(r) EXCEPT !.log = Append(@, "purged")])
    /\ UNCHANGED <<configured, client, isConnected, serverUp>>
    /\ UNCHANGED <<call, lmsVars, db, reqNo, courseCommits, courseAcked>>

DoDel(i) ==
    /\ At(i, "del")
    /\ LET r == [reqs[i] EXCEPT !.blind = @ /\ ~CacheAvailable,
                                !.purged = @ \cup {Cur(i).a},
                                !.log = Append(@, "purge")]
           d == RedisClient_del(Cur(i).a)
       IN /\ store' = d.store
          /\ SetReq(i, IF d.threw THEN Failed(r, 500, "cache")
                       ELSE [Advance(r) EXCEPT !.log = Append(@, "purged")])
    /\ UNCHANGED <<configured, client, isConnected, serverUp>>
    /\ UNCHANGED <<call, lmsVars, db, reqNo, courseCommits, courseAcked>>

\* `await Model.findById(...)` between the purge and the response: a
\* database error goes to next(error) after the write and the purge
DoReload(i) ==
    /\ At(i, "reload")
    /\ LET r == reqs[i]
       IN \E dbOk \in BOOLEAN :
            SetReq(i, IF dbOk THEN Advance(r) ELSE Failed(r, 500, "db"))
    /\ UNCHANGED <<redisVars, call, lmsVars, db, reqNo, courseCommits, courseAcked>>

\* res.status(code).json(...): the success response
DoRespond(i) ==
    /\ At(i, "respond")
    /\ LET r == reqs[i]
       IN /\ SetReq(i, Succeeded([r EXCEPT !.log = Append(@, "respond")], Cur(i).a))
          /\ courseAcked' = IF r.commit > courseAcked THEN r.commit ELSE courseAcked
    /\ UNCHANGED <<redisVars, call, lmsVars, db, reqNo, courseCommits>>

Step(i) ==
    \/ DoProtect(i)
    \/ DoCacheGet(i)
    \/ DoDbRead(i)
    \/ DoCacheSet(i)
    \/ DoDbWrite(i)
    \/ DoDelPatternKeys(i)
    \/ DoDelPatternDel(i)
    \/ DoDel(i)
    \/ DoReload(i)
    \/ DoRespond(i)

\* the connection's life; the entries outlive these behaviours (their TTLs
\* are 300 s and more), expiry is part of SpecLong and SpecStore
Redis ==
    \/ connect
    \/ OnError
    \/ OnConnect
    \/ ServerDown
    \/ ServerBack

DbInit ==
    db \in [users : {[u \in UserIds |-> IF u = "a1" THEN UserDoc("admin", TRUE, 0, "p1") ELSE x] :
                        x \in {NoUser, UserDoc("student", TRUE, 0, "p1")}},
            courses : [CourseIds -> {"b1"}],
            assignments : {[g \in AsgIds |-> NoAsg]},
            enrollments : {{}}]

HandlersInit ==
    /\ RedisInit
    /\ DbInit
    /\ reqs = [i \in Slots |-> IdleReq]
    /\ reqNo = 0
    /\ courseCommits = 0
    /\ courseAcked = 0
    /\ call = Null
    /\ ProgressIdle

\* requests one after another: no two overlap
NoneRunning == \A j \in Slots : ~Running(j)

Init == HandlersInit

Next ==
    \/ \E h \in AllHandlers : NoneRunning /\ reqNo < MaxReqs /\ StartRequest(1, h)
    \/ Step(1)
    \/ Redis

Spec == Init /\ [][Next]_vars

\* three requests in a row, the cache connected before the first of them
\* and never lost
NextLong ==
    \/ \E h \in AllHandlers :
            isConnected /\ NoneRunning /\ reqNo < MaxLongReqs /\ StartRequest(1, h)
    \/ Step(1)
    \/ connect
    \/ OnConnect
    \/ \E k \in AllKeys : Expire(k)

SpecLong == Init /\ [][NextLong]_vars

-----------------------------------------------------------------------------
(* The course handlers with requests overlapping: Node runs one handler    *)
(* until its next await, then any other.  The cache is connected before   *)
(* the first request and stays connected.                                  *)

ConcStep(i) ==
    \/ DoProtect(i)
    \/ DoCacheGet(i)
    \/ DoDbRead(i)
    \/ DoCacheSet(i)
    \/ DoDbWrite(i)
    \/ DoDelPatternKeys(i)
    \/ DoDelPatternDel(i)
    \/ DoRespond(i)

ConcNext ==
    \/ \E i \in Slots, h \in CourseReads \cup CourseWrites :
            isConnected /\ reqNo < MaxConcReqs /\ StartRequest(i, h)
    \/ \E i \in Slots : ConcStep(i)
    \/ connect
    \/ OnConnect

SpecConc == Init /\ [][ConcNext]_vars

-----------------------------------------------------------------------------
(* RedisClient on its own: set, del and delPattern called in any order     *)
(* while the connection comes and goes.  `call` is the delPattern call     *)
(* under observation: its pattern, the keys set when it began, the keys    *)
(* client.keys returned, and whether both of its backing calls succeeded.  *)

StoreKeys == {CoursesKey("q1"), CoursesKey("q2"), UsersStatsKey, UserKey("a1")}
StoreValues == {"v1", "v2"}

NoCall ==
    [phase |-> "none", pattern |-> <<>>, keys |-> {},
     before |-> {}, ok |-> FALSE]

StoreSet(k, v) ==
    /\ store' = RedisClient_set(k, Some(v)).store
    /\ UNCHANGED <<configured, client, isConnected, serverUp>>
    /\ UNCHANGED <<call, handlerVars>>

StoreDel(k) ==
    /\ store' = RedisClient_del(k).store
    /\ UNCHANGED <<configured, client, isConnected, serverUp>>
    /\ UNCHANGED <<call, handlerVars>>

\* delPattern(p) up to `await this.client.keys(pattern)`; with no key to
\* delete the call is complete
DelPatternKeys(p) ==
    /\ call.phase # "keys"
    /\ LET k == RedisClient_delPattern_keys(p).keys
       IN call' = [phase |-> IF k = {} THEN "done" ELSE "keys",
                   pattern |-> p, keys |-> k,
                   before |-> {x \in AllKeys : store[x] # None},
                   ok |-> CacheAvailable]
    /\ UNCHANGED <<redisVars, handlerVars>>

\* delPattern(p) from `await this.client.del(keys)` to its return
DelPatternDel ==
    /\ call.phase = "keys"
    /\ store' = RedisClient_delPattern_del(call.keys).store
    /\ call' = [call EXCEPT !.phase = "done", !.ok = @ /\ serverUp]
    /\ UNCHANGED <<configured, client, isConnected, serverUp>>
    /\ UNCHANGED handlerVars

StoreInit ==
    /\ RedisInit
    /\ db = [users |-> [u \in UserIds |-> NoUser],
             courses |-> [c \in CourseIds |-> NoDoc],
             assignments |-> [g \in AsgIds |-> NoAsg],
             enrollments |-> {}]
    /\ reqs = [i \in Slots |-> IdleReq]
    /\ reqNo = 0
    /\ courseCommits = 0
    /\ courseAcked = 0
    /\ call = NoCall
    /\ ProgressIdle

StoreNext ==
    \/ \E k \in StoreKeys, v \in StoreValues : StoreSet(k, v)
    \/ \E k \in StoreKeys : StoreDel(k)
    \/ \E p \in AllPatterns : DelPatternKeys(p)
    \/ DelPatternDel
    \/ Redis
    \/ \E k \in StoreKeys : Expire(k)

SpecStore == StoreInit /\ [][StoreNext]_vars

\* the step on which the observed delPattern call returns, both of its
\* backing calls having succeeded
DelPatternReturns == call' # call /\ call'.phase = "done" /\ call'.ok

C7_Purged ==
    DelPatternReturns =>
        \A k \in AllKeys :
            IF GlobMatch(call'.pattern, k)
            THEN k \in call'.before => (RedisClient_get(k).value)' = None
            ELSE store'[k] = store[k]

\* C7: on a connected store, when delPattern(p) returns, get(k) is absent
\* for every key matching p that was set before the call, and every key
\* not matching p has the value it had.
C7_DelPatternPurgesExactlyMatches == [][C7_Purged]_vars

\* a call has deleted two keys and left a key outside the pattern alone
C7_Witness ==
    /\ call.phase = "done"
    /\ call.ok
    /\ Cardinality(call.keys) >= 2
    /\ \A k \in call.keys : store[k] = None
    /\ \E k \in AllKeys : ~GlobMatch(call.pattern, k) /\ store[k] # None

-----------------------------------------------------------------------------
(* Invalidation: what a handler purges, and in which order.                *)

\* the handlers that invalidate the cache after their write
InvalidatingHandlers ==
    {"createCourse", "updateCourse", "deleteCourse", "submitAssignment",
     "reviewAssignment", "createUser", "updateUser", "deleteUser",
     "toggleUserStatus", "changeUserRole"}

\* the patterns and keys the handler of r passes to delPattern and del
Purges(r) ==
    {Program(r)[j].a : j \in {x \in DOMAIN Program(r) :
                                Program(r)[x].op \in {"delPattern", "del"}}}

\* the keys those cover
MustPurge(r) == {k \in AllKeys : \E x \in Purges(r) : GlobMatch(x, k)}

Before(log, j, e) == \E k \in 1..(j - 1) : log[k] = e

\* every purge attempt follows the write; the response follows the write
\* and at least one purge attempt, each of them completed
LogOrdered(log) ==
    \A j \in DOMAIN log :
        /\ log[j] = "purge" => Before(log, j, "write")
        /\ log[j] = "respond" =>
              /\ Before(log, j, "write")
              /\ Before(log, j, "purge")
              /\ \A k \in 1..(j - 1) :
                    log[k] = "purge" => k + 1 < j /\ log[k + 1] = "purged"

\* C3: every handler that creates, edits, deletes, submits or reviews an
\* Assignment has attempted to purge `assignments:*` when it sends its
\* success response.
C3_AssignmentWritesPurge ==
    \A i \in Slots :
        reqs[i].status = "ok" /\ reqs[i].h \in AssignmentWrites
            => AssignmentsPattern \in reqs[i].purged

\* C4: in each invalidating handler the database write completes before a
\* purge is attempted and every purge attempt completes before the success
\* response; a request whose write failed (refused, document not found) has
\* attempted no purge, and no failed request has sent a success response.
C4_WriteThenPurgeThenRespond ==
    \A i \in Slots :
        LET r == reqs[i]
        IN r.h \in InvalidatingHandlers =>
            /\ LogOrdered(r.log)
            /\ r.purged # {} => r.wrote
            /\ r.status = "ok" =>
                  /\ r.log[Len(r.log)] = "respond"
                  /\ r.purged = Purges(r)
                  /\ r.keys = {}
            /\ r.status = "fail" =>
                  /\ \A k \in 1..Len(r.log) : r.log[k] # "respond"
                  /\ ~r.wrote => r.log = <<>> /\ r.purged = {}

\* updateUser has written, purged users:* and user:<id>, then responded
C4_Witness ==
    \E i \in Slots :
        /\ reqs[i].status = "ok"
        /\ reqs[i].h = "updateUser"
        /\ reqs[i].log = <<"write", "purge", "purged", "purge", "purged", "respond">>

\* request i is at a cache call that finds the cache unconfigured, not
\* connected, or whose backing call throws
CacheCallFails(i) ==
    /\ Running(i)
    /\ \/ /\ Cur(i).op \in {"cacheGet", "cacheSet", "del"}
          /\ ~CacheAvailable
       \/ /\ Cur(i).op = "delPattern"
          /\ IF reqs[i].keys = {} THEN ~CacheAvailable ELSE ~serverUp

C5_CallHasNoEffect ==
    \A i \in Slots :
        CacheCallFails(i) /\ reqs'[i] # reqs[i] =>
            /\ store' = store
            /\ reqs'[i].status = "run"
            /\ reqs'[i].pc = reqs[i].pc + 1
            /\ reqs'[i].err = Null
            /\ reqs'[i].resp = reqs[i].resp

C5_Outcome ==
    \A i \in Slots :
        LET r == reqs[i]
        IN /\ r.err # "cache"
           /\ r.wrote /\ r.status = "fail" => r.err = "db"
           /\ r.status = "ok" /\ r.h \in CachedReads /\ r.blind =>
                 r.src = "db" /\ r.resp = Some(Response(r))

\* C5: a cache call that finds the cache unconfigured, not connected, or
\* whose backing call throws returns absent (get) or changes nothing (set,
\* del, delPattern) and raises nothing: the request goes on, a read answers
\* from the database and a mutation that has written is failed by nothing
\* but the database.
C5_FailOpen == [][C5_CallHasNoEffect]_vars /\ []C5_Outcome

\* a read has answered from the database with a configured cache down
C5_Witness ==
    \E i \in Slots :
        /\ reqs[i].status = "ok"
        /\ reqs[i].h \in CachedReads
        /\ reqs[i].blind
        /\ reqs[i].src = "db"
        /\ client
        /\ ~CacheAvailable

\* C6: once a mutation has sent its success response, no key it had to
\* purge is readable, whatever connection losses and reconnections happened
\* while it ran or happen afterwards.
C6_PurgedKeysUnreadable ==
    \A i \in Slots :
        reqs[i].status = "ok" /\ reqs[i].h \in InvalidatingHandlers
            => \A k \in MustPurge(reqs[i]) : RedisClient_get(k).value = None

\* request i has answered from the cache
CacheHit(i) == reqs[i].status = "ok" /\ reqs[i].src = "cache"

\* C1: in every sequence of requests run one after another, a cached read
\* handler answering from the cache returns the body it would build from
\* the database, that is what it returns with the cache disabled.
C1_CachedReadEqualsUncached ==
    \A i \in Slots :
        CacheHit(i) /\ reqs[i].h \in CachedReads
            => reqs[i].resp[1].body = Fresh(reqs[i])

\* C8: a getUserById(u) by another user that answers from the cache returns
\* the stored document of u: no operation that changed u and has completed
\* left the entry user:<u> behind.
C8_UserByIdNeverStale ==
    \A i \in Slots :
        CacheHit(i) /\ reqs[i].h = "getUserById" /\ reqs[i].actor # reqs[i].target
            => reqs[i].resp[1].body = db.users[reqs[i].target]

\* C9: a cache hit in getAllAssignments or getAssignmentsByCourse returns a
\* response computed for the requesting user id under the role that user
\* has now.
C9_HitForSameUserAndRole ==
    \A i \in Slots :
        CacheHit(i) /\ reqs[i].h \in {"getAllAssignments", "getAssignmentsByCourse"}
            => /\ reqs[i].resp[1].forUser = reqs[i].actor
               /\ reqs[i].resp[1].asRole = reqs[i].role

\* C2: a getCourses that starts after a createCourse, updateCourse or
\* deleteCourse has sent its success response never answers from a cache
\* entry computed before that mutation was committed, whoever wrote the
\* entry and whenever.
C2_NoStaleCoursesAfterAck ==
    \A i \in Slots :
        CacheHit(i) /\ reqs[i].h = "getCourses"
            => reqs[i].resp[1].asOf >= reqs[i].floor

-----------------------------------------------------------------------------
(* Lesson completion on its own.                                           *)

\* an enrollment as enrollInCourse creates it, or none
ProgressInit ==
    /\ RedisInit
    /\ db = [users |-> [u \in UserIds |-> NoUser],
             courses |-> [c \in CourseIds |-> NoDoc],
             assignments |-> [g \in AsgIds |-> NoAsg],
             enrollments |-> {}]
    /\ reqs = [i \in Slots |-> IdleReq]
    /\ reqNo = 0
    /\ courseCommits = 0
    /\ courseAcked = 0
    /\ call = Null
    /\ enrollment \in {NoEnrollment}
            \cup {EnrollmentDoc(t, 0, 0, FALSE, 0) : t \in 0..MaxLessons}
            \cup {EnrollmentDoc(ManyLessons, DoneLessons,
                                Percent(DoneLessons, ManyLessons), FALSE, 0)}
    /\ lessonProgress = NoProgress
    /\ lastCall = NoLessonCall
    /\ lessonCalls = [i \in Callers |-> IdleCall]
    /\ QuizIdle
    /\ AsgIdle

ProgressNext ==
    \/ markLessonComplete
    \/ \E l \in LessonRefs : progress_markLessonComplete(l[1], l[2])

SpecProgress == ProgressInit /\ [][ProgressNext]_vars

\* what a client sees of the enrollment's progress
Visible(e) == <<e.completedLessons, e.progress, e.isCompleted>>

C10_SecondCallChangesNothing ==
    lastCall' = lastCall /\ reqNo' = reqNo + 1
        => Visible(enrollment') = Visible(enrollment)

\* C10: markLessonComplete is idempotent: a call identical to the call
\* before it leaves completedLessons, progress and isCompleted as they are.
C10_MarkLessonCompleteIdempotent == [][C10_SecondCallChangesNothing]_vars

-----------------------------------------------------------------------------
(* markLessonComplete, calls overlapping.                                  *)

LessonsInit ==
    /\ RedisInit
    /\ db = [users |-> [u \in UserIds |-> NoUser],
             courses |-> [c \in CourseIds |-> NoDoc],
             assignments |-> [g \in AsgIds |-> NoAsg],
             enrollments |-> {}]
    /\ reqs = [i \in Slots |-> IdleReq]
    /\ reqNo = 0
    /\ courseCommits = 0
    /\ courseAcked = 0
    /\ call = Null
    /\ enrollment \in {NoEnrollment}
            \cup {EnrollmentDoc(t, 0, 0, FALSE, 0) : t \in 0..MaxLessons}
    /\ lessonProgress = NoProgress
    /\ lastCall = NoLessonCall
    /\ lessonCalls = [i \in Callers |-> IdleCall]
    /\ QuizIdle
    /\ AsgIdle

LessonsNext ==
    \/ \E i \in Callers : markLessonComplete_findOne(i)
    \/ \E i \in Callers : markLessonComplete_save(i)
    \/ \E i \in Callers, l \in LessonRefs : progress_findOne(i, l[1], l[2])
    \/ \E i \in Callers : progress_findOneAndUpdate(i)
    \/ \E i \in Callers : progress_insert(i)
    \/ \E i \in Callers : progress_countDocuments(i)
    \/ \E i \in Callers : progress_findByIdAndUpdate(i)

SpecLessons == LessonsInit /\ [][LessonsNext]_vars

\* no call is in flight
Quiescent == \A i \in Callers : CallFree(i)

\* C11: once every markLessonComplete call has finished, the stored
\* completedLessons equals the number of completion records of the student
\* and course.
C11_CompletedEqualsRecords ==
    Quiescent /\ enrollment.exists
        => enrollment.completedLessons = Progress_countDocuments(lessonProgress)

\* C12: every Enrollment has 0 <= completedLessons <= totalLessons and
\* 0 <= progress <= 100, whatever indexes markLessonComplete was called with.
C12_CountsWithinBounds ==
    enrollment.exists =>
        /\ 0 <= enrollment.completedLessons
        /\ enrollment.completedLessons <= enrollment.totalLessons
        /\ 0 <= enrollment.progress
        /\ enrollment.progress <= 100

\* a markLessonComplete call is made in this step
LessonCall == reqNo' = reqNo + 1

C13_ZeroLessonsStep ==
    LessonCall /\ enrollment.exists /\ enrollment.totalLessons = 0
        => /\ lastCall'.code = 200
           /\ enrollment'.progress = 0
           /\ ~enrollment'.isCompleted

\* C13: on an enrollment with totalLessons = 0 markLessonComplete succeeds
\* and leaves progress = 0 and isCompleted = false.
C13_ZeroLessonsSucceeds == [][C13_ZeroLessonsStep]_vars

C14_ProgressStep ==
    LessonCall /\ enrollment.exists /\ enrollment.totalLessons > 0
        => enrollment'.progress
             = RoundHalfUp(enrollment'.completedLessons, enrollment'.totalLessons)

\* C14: after every markLessonComplete on an enrollment with totalLessons > 0
\* the stored progress is completedLessons / totalLessons * 100 rounded to
\* an integer, halves up.
C14_ProgressIsRoundedRatio == [][C14_ProgressStep]_vars

\* C15: isCompleted is true exactly when completedLessons >= totalLessons
\* and totalLessons > 0.
C15_CompletedIffAllLessons ==
    enrollment.exists =>
        (enrollment.isCompleted
            <=> /\ enrollment.completedLessons >= enrollment.totalLessons
                /\ enrollment.totalLessons > 0)

C16_CompletedAtStep ==
    /\ enrollment.completedAt # 0 => enrollment'.completedAt = enrollment.completedAt
    /\ enrollment'.completedAt # enrollment.completedAt
          => ~enrollment.isCompleted /\ enrollment'.isCompleted

\* C16: completedAt is written only by the call that takes isCompleted from
\* false to true, and once set no later or overlapping call changes it.
C16_CompletedAtSetOnce == [][C16_CompletedAtStep]_vars

\* C17: no key (student, course, moduleIndex, lessonIndex) has two completion
\* records, and a finished call whose key is recorded has returned success.
C17_OneRecordAndNoError ==
    /\ \A l \in LessonRefs : lessonProgress[l] <= 1
    /\ \A i \in Callers :
          /\ CallAt(i, "progress_markLessonComplete", "done")
          /\ lessonProgress[lessonCalls[i].arg] > 0
          => lessonCalls[i].code = 200

C18_NotEnrolledStep ==
    LessonCall /\ ~enrollment.exists
        => /\ lastCall'.code = 404
           /\ enrollment' = enrollment
           /\ lessonProgress' = lessonProgress

\* C18: markLessonComplete of a student with no enrollment in the course
\* fails with 404, creates no completion record and changes no enrollment.
C18_NotEnrolledIsNotFound == [][C18_NotEnrolledStep]_vars

-----------------------------------------------------------------------------
(* Quizzes: created, changed, deleted and submitted.                       *)

\* the quizzes createQuiz stores; a course it names exists
StoredQuizzes(d) ==
    {QuizDoc(courseId, questions, OrElse(passingScore, 70)) :
        courseId \in {Null} \cup {c \in CourseIds : d.courses[c] # NoDoc},
        questions \in QuestionLists,
        passingScore \in PassingScores \cup {Undefined}}

\* no quiz yet, or one an admin created
QuizInit ==
    /\ RedisInit
    /\ db \in {[users |-> [u \in UserIds |-> NoUser],
                courses |-> [c \in CourseIds |-> d],
                assignments |-> [g \in AsgIds |-> NoAsg],
                enrollments |-> {}] : d \in {NoDoc, "b1"}}
    /\ reqs = [i \in Slots |-> IdleReq]
    /\ reqNo = 0
    /\ courseCommits = 0
    /\ courseAcked = 0
    /\ call = Null
    /\ enrollment = NoEnrollment
    /\ lessonProgress = NoProgress
    /\ lastCall = NoLessonCall
    /\ lessonCalls = [i \in Callers |-> IdleCall]
    /\ quiz \in {NoQuiz} \cup StoredQuizzes(db)
    /\ quizResults = <<>>
    /\ quizCall = NoQuizCall
    /\ AsgIdle

QuizNext ==
    \/ \E courseId \in {Null} \cup CourseIds, questions \in QuestionLists,
          passingScore \in PassingScores \cup {Undefined} :
            createQuiz(courseId, questions, passingScore)
    \/ \E passingScore \in PassingScores \cup {Undefined} :
          \/ updateQuiz(FALSE, <<>>, passingScore)
          \/ \E questions \in QuestionLists : updateQuiz(TRUE, questions, passingScore)
    \/ deleteQuiz
    \/ \E answers \in AnswerLists : submitQuiz(answers)

SpecQuiz == QuizInit /\ [][QuizNext]_vars

\* the previous request was a submitQuiz that found the quiz and scored it
Scored == quizCall.h = "submitQuiz" /\ quizCall.code # 404
\* ... and it answered 200 with the result
Returned == quizCall.h = "submitQuiz" /\ quizCall.code = 200

\* the questions whose entry in answers is the correct option
Correct(questions, answers) ==
    {i \in 1..Len(questions) :
        i \in DOMAIN answers /\ answers[i] = questions[i].correctAnswer}
\* a question's point weight, 1 when it has none
Weight(question) == IF "points" \in DOMAIN question THEN question.points ELSE 1
RECURSIVE SumWeights(_, _)
SumWeights(questions, S) ==
    IF S = {} THEN 0
    ELSE LET i == CHOOSE j \in S : TRUE
         IN  Weight(questions[i]) + SumWeights(questions, S \ {i})
\* answers without the entries beyond the question count
Truncated(questions, answers) ==
    SubSeq(answers, 1, IF Len(answers) < Len(questions)
                       THEN Len(answers) ELSE Len(questions))

C19_ShortAnswers ==
    /\ Returned
    /\ Len(quiz.questions) = 2
    /\ Len(quizCall.answers) = 1
    /\ quizCall.result.score = 1

\* C20: the percentage a submitQuiz stores and returns is
\* round(score / totalPoints x 100), and passed is true exactly when the
\* percentage is at least the passingScore the quiz holds, for every value
\* 0..100 it can hold.
C20_PassedIffAtLeastPassingScore ==
    Returned =>
        /\ quizCall.result.percentage
             = RoundHalfUp(quizCall.result.score, quizCall.result.totalPoints)
        /\ quizResults[Len(quizResults)] = QuizResultDoc(quiz, quizCall.result)
        /\ quizCall.result.passed
             <=> quizCall.result.percentage >= quiz.passingScore

\* a quiz request has just been answered
QuizRequest == reqNo' = reqNo + 1
\* ... a submitQuiz answered with 200
SubmitReturns == QuizRequest /\ quizCall'.h = "submitQuiz" /\ quizCall'.code = 200

C21_AppendStep ==
    IF SubmitReturns
    THEN /\ Len(quizResults') = Len(quizResults) + 1
         /\ SubSeq(quizResults', 1, Len(quizResults)) = quizResults
         /\ LET stored == quizResults'[Len(quizResults')]
            IN  /\ stored.quiz = quiz.id
                /\ stored.score = quizCall'.result.score
                /\ stored.totalPoints = quizCall'.result.totalPoints
                /\ stored.percentage = quizCall'.result.percentage
                /\ stored.passed = quizCall'.result.passed
    ELSE quizResults' = quizResults

\* C21: every submitQuiz answered with success appends exactly one QuizResult
\* holding the score, totalPoints, percentage and passed of the response, also
\* when an equal result is already stored; no other step of any operation
\* changes or removes a stored QuizResult.
C21_ResultsAppendOnly == [][C21_AppendStep]_vars

\* two submissions with equal outcome have left two equal records
C21_Witness ==
    /\ Returned
    /\ Len(quizResults) = 2
    /\ quizResults[1] = quizResults[2]

C22_FrozenStep ==
    (quiz.exists /\ \E k \in 1..Len(quizResults) : quizResults[k].quiz = quiz.id)
        => /\ quiz'.exists
           /\ quiz'.questions = quiz.questions
           /\ quiz'.passingScore = quiz.passingScore

\* C22: once a QuizResult references a quiz, no operation changes that quiz's
\* questions, correct options or passingScore, or removes it.
C22_ReferencedQuizFrozen == [][C22_FrozenStep]_vars

C23_NotFoundStep ==
    QuizRequest /\ quizCall'.h = "submitQuiz" /\ ~quiz.exists
        => /\ quizCall'.code = 404
           /\ quizResults' = quizResults

\* C23: a submitQuiz for a quiz id under which no quiz is stored fails with
\* 404 (Quiz not found) and creates no QuizResult.
C23_UnknownQuizIsNotFound == [][C23_NotFoundStep]_vars

\* a submission with answers was refused for a quiz that had been deleted
C23_Witness ==
    /\ quizCall.h = "submitQuiz"
    /\ quizCall.code = 404
    /\ quizCall.answers # <<>>
    /\ ~quiz.exists
    /\ quiz.id = 1

-----------------------------------------------------------------------------
(* Assignments: created, submitted, reviewed and read, one request at a    *)
(* time.                                                                   *)

\* no assignment yet; the build's strictQuery and the students of the batch
AssignmentsInit ==
    /\ RedisInit
    /\ db = [users |-> [u \in UserIds |-> NoUser],
             courses |-> [c \in CourseIds |-> NoDoc],
             assignments |-> [g \in AsgIds |-> NoAsg],
             enrollments |-> {}]
    /\ reqs = [i \in Slots |-> IdleReq]
    /\ reqNo = 0
    /\ courseCommits = 0
    /\ courseAcked = 0
    /\ call = Null
    /\ enrollment = NoEnrollment
    /\ lessonProgress = NoProgress
    /\ lastCall = NoLessonCall
    /\ lessonCalls = [i \in Callers |-> IdleCall]
    /\ QuizIdle
    /\ assignments = [g \in AsgSlots |-> NoAssignment]
    /\ EnrollIdle
    /\ asgCalls = [i \in Callers |-> IdleAsgCall]
    /\ strictQuery \in BOOLEAN
    /\ batchStudents \in SUBSET Pupils

\* the steps of caller i
AssignmentsStep(i) ==
    \/ \E batch \in {CourseBatch, OtherBatch}, title \in Titles :
          createAssignment_batch(i, batch, title)
    \/ \E title \in Titles : createAssignment_template(i, title)
    \/ \E actor \in Pupils \cup Staff, title \in Titles :
          submitAssignment_findOne(i, actor, title)
    \/ submitAssignment_create(i)
    \/ submitAssignment_save(i)
    \/ \E actor \in Pupils \cup Staff, id \in AsgSlots :
          reviewAssignment_findById(i, actor, id)
    \/ reviewAssignment_save(i)
    \/ \E id \in AsgSlots : adminAssignment_reviewAssignment_findById(i, "a1", id)
    \/ adminAssignment_reviewAssignment_save(i)
    \/ \E id \in AsgSlots : admin_reviewAssignment_findByIdAndUpdate(i, "a1", id)
    \/ \E actor \in Pupils \cup Staff, id \in AsgSlots :
          getAssignmentById(i, actor, id)

AssignmentsNext == AssignmentsStep(1)

SpecAssignments == AssignmentsInit /\ [][AssignmentsNext]_vars

ReviewHandlers ==
    {"reviewAssignment", "adminAssignment_reviewAssignment", "admin_reviewAssignment"}
\* caller i's request has just started: c is the call, it found document c.id
AsgStarted(i, h) ==
    /\ reqNo' = reqNo + 1
    /\ asgCalls'[i] # asgCalls[i]
    /\ asgCalls'[i].h = h

C24_ReviewStep ==
    /\ \A i \in Callers, h \in ReviewHandlers :
         LET c == asgCalls'[i]
         IN  AsgStarted(i, h) /\ c.actor \in Staff /\ assignments[c.id].exists
                 /\ assignments[c.id].status # "submitted"
               => /\ c.pc = "done"
                  /\ c.code = 400
                  /\ assignments' = assignments
    /\ \A g \in AsgSlots :
         assignments'[g].review # assignments[g].review
           => assignments[g].status = "submitted" /\ assignments'[g].status = "reviewed"

\* C24: through each of the three reviewAssignment handlers, a review of an
\* assignment whose status is pending or reviewed fails with 400 and leaves the
\* assignment as it is; a review is written only to a submitted assignment,
\* whose status becomes reviewed.
C24_ReviewOnlySubmitted == [][C24_ReviewStep]_vars

C25_SubmitStep ==
    /\ \A i \in Callers :
         LET c == asgCalls'[i]
         IN  AsgStarted(i, "submitAssignment") /\ c.id # 0
                 /\ assignments[c.id].status = "reviewed"
               => c.pc = "done" /\ c.code = 400
    /\ \A g \in AsgSlots :
         assignments[g].status = "reviewed"
            => /\ assignments'[g].status # "submitted"
               /\ assignments'[g].submission = assignments[g].submission

\* C25: a submission that matches a reviewed assignment fails with 400 and
\* leaves its status, submission and review as they are: no step takes an
\* assignment from reviewed back to submitted.
C25_NoSubmitAfterReview == [][C25_SubmitStep]_vars

\* no assignment request is in flight
AsgQuiet == \A i \in Callers : AsgCallFree(i)

\* C26: whenever the create, submit and review requests made so far have all
\* completed, an assignment has a review sub-record exactly when its status
\* is reviewed.
C26_ReviewIffReviewed ==
    AsgQuiet =>
        \A g \in AsgSlots :
            assignments[g].exists
                => (assignments[g].review # NoReview <=> assignments[g].status = "reviewed")

\* the documents a step has created
Created == {g \in AsgSlots : assignments'[g].exists /\ ~assignments[g].exists}

C28_BatchStep ==
    \A i \in Callers :
        LET c == asgCalls'[i]
        IN  AsgStarted(i, "createAssignment") /\ c.batch = CourseBatch /\ c.code = 201
              => /\ c.count = Cardinality(batchStudents)
                 /\ Cardinality(Created) = Cardinality(batchStudents)
                 /\ \A s \in batchStudents : \E g \in Created :
                        assignments'[g] = Assignment(s, c.batch, c.title, "pending", 0)

\* C28: a createAssignment for a batch of N students that answers with success
\* has created exactly N assignments, one for each student of the batch, each
\* pending and carrying the batch and the supplied title, and reports N.
C28_BatchCreatesOnePerStudent == [][C28_BatchStep]_vars

C29_PartialStep ==
    \A i \in Callers :
        LET c == asgCalls'[i]
        IN  AsgStarted(i, "createAssignment") /\ c.batch = CourseBatch /\ c.code = 500
              => c.count = Cardinality(Created)

\* C29: a batch createAssignment in which a creation failed keeps the
\* assignments it created and reports how many it created.
C29_PartialBatchReportsCount == [][C29_PartialStep]_vars

-----------------------------------------------------------------------------
(* One assignment, its review, submit and read requests overlapping.       *)

\* an assignment a student submitted or an admin created for them
ReviewRaceInit ==
    /\ RedisInit
    /\ db = [users |-> [u \in UserIds |-> NoUser],
             courses |-> [c \in CourseIds |-> NoDoc],
             assignments |-> [g \in AsgIds |-> NoAsg],
             enrollments |-> {}]
    /\ reqs = [i \in Slots |-> IdleReq]
    /\ reqNo = 0
    /\ courseCommits = 0
    /\ courseAcked = 0
    /\ call = Null
    /\ enrollment = NoEnrollment
    /\ lessonProgress = NoProgress
    /\ lastCall = NoLessonCall
    /\ lessonCalls = [i \in Callers |-> IdleCall]
    /\ QuizIdle
    /\ \E first \in {Assignment("s1", Null, "t1", "submitted", 0),
                     Assignment("s1", CourseBatch, "t1", "pending", 0)} :
          assignments = [g \in AsgSlots |-> IF g = 1 THEN first ELSE NoAssignment]
    /\ EnrollIdle
    /\ asgCalls = [i \in Callers |-> IdleAsgCall]
    /\ strictQuery = FALSE
    /\ batchStudents = {"s1"}

\* student s1 submits and reads, staff member a1 reviews, from any caller
ReviewRaceNext ==
    \/ \E i \in Callers, title \in Titles : submitAssignment_findOne(i, "s1", title)
    \/ \E i \in Callers : submitAssignment_create(i)
    \/ \E i \in Callers : submitAssignment_save(i)
    \/ \E i \in Callers : reviewAssignment_findById(i, "a1", 1)
    \/ \E i \in Callers : reviewAssignment_save(i)
    \/ \E i \in Callers : adminAssignment_reviewAssignment_findById(i, "a1", 1)
    \/ \E i \in Callers : adminAssignment_reviewAssignment_save(i)
    \/ \E i \in Callers : admin_reviewAssignment_findByIdAndUpdate(i, "a1", 1)
    \/ \E i \in Callers : getAssignmentById(i, "s1", 1)

SpecReviewRace == ReviewRaceInit /\ [][ReviewRaceNext]_vars

\* a review sub-record with its three fields, all of one call
OneReview(review) ==
    /\ review.feedback # 0
    /\ review.reviewedBy # Null
    /\ review.reviewedAt = review.feedback
\* what a reader may see of a document
Consistent(doc) ==
    /\ doc.status = "reviewed" => doc.review # NoReview
    /\ doc.review # NoReview => OneReview(doc.review)

C27_Seen ==
    /\ \A g \in AsgSlots : Consistent(assignments[g])
    /\ \A i \in Callers :
         asgCalls[i].h = "getAssignmentById" /\ asgCalls[i].code = 200
            => Consistent(asgCalls[i].doc)

C27_CommitStep ==
    \A g \in AsgSlots :
        assignments'[g].review # assignments[g].review
          => \E i \in Callers :
                /\ asgCalls'[i] # asgCalls[i]
                /\ asgCalls'[i].pc = "done"
                /\ asgCalls'[i].code = 200
                /\ asgCalls'[i].h \in ReviewHandlers
                /\ assignments'[g].review
                     = Review(asgCalls'[i].no, asgCalls'[i].actor, asgCalls'[i].no)

\* C27: under every interleaving of review, submit and read requests on one
\* assignment, no stored or read document has status reviewed without a review
\* sub-record, the feedback, reviewer and time of a review sub-record are
\* those of one review call, and the sub-record changes only when a review
\* call commits, to that call's three values.
C27_ReviewWrittenWhole == [](C27_Seen) /\ [][C27_CommitStep]_vars

\* two review calls overlapped: the one that started first, having read the
\* assignment without a review, committed last and its review is the stored one
C27_Witness ==
    /\ \E i, j \in Callers :
         /\ i # j
         /\ asgCalls[i].h \in ReviewHandlers /\ asgCalls[i].code = 200
         /\ asgCalls[j].h \in ReviewHandlers /\ asgCalls[j].code = 200
         /\ asgCalls[i].no < asgCalls[j].no
         /\ asgCalls[i].doc.review = NoReview
         /\ assignments[1].review.reviewedAt = asgCalls[i].no
    /\ assignments[1].status = "reviewed"

-----------------------------------------------------------------------------
(* Enrolment requests overlapping.                                         *)

EnrollInit ==
    /\ RedisInit
    /\ db = [users |-> [u \in UserIds |-> NoUser],
             courses |-> [c \in CourseIds |-> "b1"],
             assignments |-> [g \in AsgIds |-> NoAsg],
             enrollments |-> {}]
    /\ reqs = [i \in Slots |-> IdleReq]
    /\ reqNo = 0
    /\ courseCommits = 0
    /\ courseAcked = 0
    /\ call = Null
    /\ enrollment = NoEnrollment
    /\ lessonProgress = NoProgress
    /\ lastCall = NoLessonCall
    /\ lessonCalls = [i \in Callers |-> IdleCall]
    /\ QuizIdle
    /\ AsgIdle

EnrollNext ==
    \/ \E i \in Callers, s \in Pupils, c \in EnrollCourses : enrollInCourse_findOne(i, s, c)
    \/ \E i \in Callers : enrollInCourse_findById(i)
    \/ \E i \in Callers, s \in Pupils, c \in EnrollCourses : enrollCourse_findById(i, s, c)
    \/ \E i \in Callers : enrollCourse_findOne(i)
    \/ \E i \in Callers : Enrollment_create(i)
    \/ \E k \in 1..MaxEnrollCalls : Enrollment_saveProgress(k)

SpecEnroll == EnrollInit /\ [][EnrollNext]_vars

OnePerPair ==
    \A k, l \in 1..Len(enrollments) :
        /\ enrollments[k].student = enrollments[l].student
        /\ enrollments[k].course = enrollments[l].course
        => k = l

\* a request ends in this step, for a pair that was enrolled before the step
EnrolledAgain(i) ==
    /\ enrollCalls'[i] # enrollCalls[i]
    /\ enrollCalls'[i].pc = "done"
    /\ Enrollment_findOne(enrollments, enrollCalls'[i].student, enrollCalls'[i].course)

C30_AgainStep ==
    \A i \in Callers :
        EnrolledAgain(i) => /\ enrollments' = enrollments
                            /\ enrollCalls'[i].code # 201

\* C30: under every interleaving of enrolment requests the Enrollment
\* collection holds at most one document per (student, course), and a
\* request that ends for a pair already enrolled creates nothing, is not
\* answered 201, and leaves the enrolment and its progress as they were.
C30_OneEnrollmentPerPair == [](OnePerPair) /\ [][C30_AgainStep]_vars

\* two requests for one pair both passed findOne; one created the enrolment,
\* the index refused the other, and the enrolment has progress by then
C30_Witness ==
    \E i, j \in Callers :
        /\ i # j
        /\ enrollCalls[i].student = enrollCalls[j].student
        /\ enrollCalls[i].course = enrollCalls[j].course
        /\ enrollCalls[i].pc = "done" /\ enrollCalls[i].code = 201
        /\ enrollCalls[j].pc = "done" /\ enrollCalls[j].at = "create"
        /\ enrollCalls[j].code \in DuplicateKeyCodes
        /\ Len(enrollments) = 1
        /\ enrollments[1].progress > 0

-----------------------------------------------------------------------------
(* set, del and delPattern as whole calls on the cache contents.           *)

\* the calls: set(k, v, ttl), del(k), delPattern(p)
CacheOps ==
    {[op |-> "set", a |-> k, v |-> v] : k \in StoreKeys, v \in StoreValues}
    \cup {[op |-> "del", a |-> k, v |-> Null] : k \in StoreKeys}
    \cup {[op |-> "delPattern", a |-> p, v |-> Null] : p \in AllPatterns}

\* client.del(keys) that leaves one of several keys in place
Redis_del_butOne(s, keys) ==
    [k \in AllKeys |->
        IF k \in keys /\ (Cardinality(keys) = 1 \/ k # CHOOSE m \in keys : TRUE)
        THEN None ELSE s[k]]
\* the server's DEL of keys on contents s
Redis_del(s, keys) == [k \in AllKeys |-> IF k \in keys THEN None ELSE s[k]]
\* the server's KEYS pattern on contents s
Redis_keys(s, pattern) == {k \in AllKeys : s[k] # None /\ GlobMatch(pattern, k)}

\* the contents after the call o on contents s, the connection as it is now
CacheApply(s, o) ==
    IF ~(CacheUsable /\ serverUp) THEN s
    ELSE IF o.op = "set" THEN [s EXCEPT ![o.a] = Some(o.v)]
    ELSE IF o.op = "del" THEN Redis_del(s, {o.a})
    ELSE Redis_del(s, Redis_keys(s, o.a))

\* whole calls, one after another, on a cache that starts empty and is
\* connected or not; `call` is the last call and the keys set before it
CacheInit ==
    /\ configured = TRUE
    /\ client = TRUE
    /\ isConnected \in BOOLEAN
    /\ serverUp \in BOOLEAN
    /\ store = [k \in AllKeys |-> None]
    /\ db = [users |-> [u \in UserIds |-> NoUser],
             courses |-> [c \in CourseIds |-> NoDoc],
             assignments |-> [g \in AsgIds |-> NoAsg],
             enrollments |-> {}]
    /\ reqs = [i \in Slots |-> IdleReq]
    /\ reqNo = 0
    /\ courseCommits = 0
    /\ courseAcked = 0
    /\ call = NoCall
    /\ ProgressIdle
CacheCall(o) ==
    /\ store' = CacheApply(store, o)
    /\ call' = [phase |-> o.op, pattern |-> o.a,
                keys |-> {k \in AllKeys : store[k] # None /\ store'[k] = None},
                before |-> {k \in AllKeys : store[k] # None},
                ok |-> CacheUsable /\ serverUp]
    /\ UNCHANGED <<configured, client, isConnected, serverUp>>
    /\ UNCHANGED handlerVars
Cache_set(k, v) ==
    /\ k \in StoreKeys
    /\ CacheCall([op |-> "set", a |-> k, v |-> v])
Cache_del(k) ==
    /\ k \in StoreKeys
    /\ CacheCall([op |-> "del", a |-> k, v |-> Null])
Cache_delPattern(p) ==
    /\ p \in AllPatterns
    /\ CacheCall([op |-> "delPattern", a |-> p, v |-> Null])
CacheNext ==
    \/ \E k \in StoreKeys, v \in StoreValues : Cache_set(k, v)
    \/ \E k \in StoreKeys : Cache_del(k)
    \/ \E p \in AllPatterns : Cache_delPattern(p)
SpecCache == CacheInit /\ [][CacheNext]_vars

Idempotent(o) == CacheApply(CacheApply(store, o), o) = CacheApply(store, o)
Commute(o, q) ==
    CacheApply(CacheApply(store, o), q) = CacheApply(CacheApply(store, q), o)
\* the keys the call o can write or delete
Touches(o) ==
    IF o.op = "delPattern" THEN {k \in AllKeys : GlobMatch(o.a, k)} ELSE {o.a}
Deletes(o) == o.op \in {"del", "delPattern"}

\* C31: applying set(k, v, ttl), del(k) or delPattern(p) twice leaves the
\* cache contents that applying it once leaves, and applying any two cache
\* operations in either order leaves the same contents.
C31_IdempotentAndCommutative ==
    /\ \A o \in CacheOps : Idempotent(o)
    /\ \A o, q \in CacheOps : Commute(o, q)

\* C31, amended: a call applied twice leaves what it leaves applied once; two
\* calls commute when both delete, when they touch no common key, or when
\* they are the same call.
C31_IdempotentAndCommutativeApart ==
    /\ \A o \in CacheOps : Idempotent(o)
    /\ \A o, q \in CacheOps :
          (Deletes(o) /\ Deletes(q)) \/ Touches(o) \cap Touches(q) = {} \/ o = q
             => Commute(o, q)

\* delPattern has just removed two course lists from a connected cache and
\* left a user entry; there a set and a del of one key do not commute
C31_Witness ==
    /\ call.phase = "delPattern" /\ call.ok
    /\ call.keys = {CoursesKey("q1"), CoursesKey("q2")}
    /\ store[UserKey("a1")] # None
    /\ \E o, q \in CacheOps : o.op = "set" /\ q.op = "del" /\ ~Commute(o, q)

-----------------------------------------------------------------------------
(* The cache keys of the list handlers: getCourses, getAllUsers and        *)
(* getAllAssignments build `prefix:${JSON.stringify({...})}` from          *)
(* req.query.  A query parameter is absent or a string; JavaScript values  *)
(* are held with their type, strings as sequences of characters.           *)

JsUndefined == [t |-> "undefined"]
JsStr(str) == [t |-> "string", s |-> str]
JsNum(n) == [t |-> "number", n |-> n]

DigitChars == <<"0", "1", "2", "3", "4", "5", "6", "7", "8", "9">>
IsDigit(c) == \E d \in 1..10 : DigitChars[d] = c
DigitOf(c) == (CHOOSE d \in 1..10 : DigitChars[d] = c) - 1

\* the value of the leading digits of str after acc, and whether any was read
RECURSIVE LeadingDigits(_, _, _)
LeadingDigits(str, acc, any) ==
    IF str # <<>> /\ IsDigit(Head(str))
    THEN LeadingDigits(Tail(str), 10 * acc + DigitOf(Head(str)), TRUE)
    ELSE [n |-> acc, any |-> any, rest |-> str]

\* parseInt(v): the leading digits, NaN when there is none
ParseInt(v) ==
    IF v.t # "string" THEN NaN
    ELSE LET r == LeadingDigits(v.s, 0, FALSE) IN IF r.any THEN r.n ELSE NaN
\* Number(v): the whole string must be a number; '' is 0; undefined is NaN
ToNumber(v) ==
    IF v.t = "number" THEN v.n
    ELSE IF v.t # "string" THEN NaN
    ELSE LET r == LeadingDigits(v.s, 0, FALSE)
         IN IF r.rest = <<>> THEN r.n ELSE NaN
\* n || d on numbers: NaN and 0 are falsy
NumberOr(n, d) == IF n = NaN \/ n = 0 THEN d ELSE n
\* if (v): undefined and '' are falsy
Truthy(v) == v.t = "string" /\ v.s # <<>>

\* String(n) of a natural number
RECURSIVE NumberChars(_)
NumberChars(n) ==
    IF n = NaN THEN <<"n", "u", "l", "l">>
    ELSE IF n < 0 THEN <<"-">> \o NumberChars(0 - n)
    ELSE IF n < 10 THEN <<DigitChars[n + 1]>>
    ELSE NumberChars(n \div 10) \o <<DigitChars[(n % 10) + 1]>>

Quote == <<"\"">>
\* JSON.stringify of a string or a number
JsonValue(v) ==
    IF v.t = "string" THEN Quote \o v.s \o Quote ELSE NumberChars(v.n)
\* JSON.stringify of an object: props are <<name, text>> pairs in insertion
\* order, a property whose value is undefined is left out (text <<>>)
RECURSIVE JsonProps(_, _)
JsonProps(props, first) ==
    IF props = <<>> THEN <<>>
    ELSE IF Head(props)[2] = <<>> THEN JsonProps(Tail(props), first)
    ELSE (IF first THEN <<>> ELSE <<",">>)
         \o Quote \o Head(props)[1] \o Quote \o <<":">> \o Head(props)[2]
         \o JsonProps(Tail(props), FALSE)
JsonObject(props) == <<"{">> \o JsonProps(props, TRUE) \o <<"}">>
\* a property the handler assigns only under `if (v)`
JsonIf(cond, v) == IF cond THEN JsonValue(v) ELSE <<>>
\* a property taken from req.query as it is
JsonRaw(v) == IF v.t = "undefined" THEN <<>> ELSE JsonValue(v)

Str_page == <<"p", "a", "g", "e">>
Str_limit == <<"l", "i", "m", "i", "t">>
Str_query == <<"q", "u", "e", "r", "y">>
Str_sort == <<"s", "o", "r", "t">>
Str_filter == <<"f", "i", "l", "t", "e", "r">>
Str_category == <<"c", "a", "t", "e", "g", "o", "r", "y">>
Str_role == <<"r", "o", "l", "e">>
Str_isPublished == <<"i", "s", "P", "u", "b", "l", "i", "s", "h", "e", "d">>
Str_true == <<"t", "r", "u", "e">>
Str_createdAt == <<"c", "r", "e", "a", "t", "e", "d", "A", "t">>
Str_price == <<"p", "r", "i", "c", "e">>
Str_priceAsc == <<"p", "r", "i", "c", "e", "-", "a", "s", "c">>

\* req.query of a list request: page, limit, one filter, sort
PageValues == {JsUndefined, JsStr(<<"1">>), JsStr(<<"2">>), JsStr(<<"0", "1">>)}
LimitValues == {JsUndefined, JsStr(<<"1", "2">>), JsStr(<<"2", "0">>), JsStr(<<"1", "0">>)}
FilterValues == {JsUndefined, JsStr(<<"c", "1">>)}
SortValues == {JsUndefined, JsStr(Str_priceAsc), JsStr(<<"x">>)}
ListQuery(page, limit, filter, sort) ==
    [page |-> page, limit |-> limit, filter |-> filter, sort |-> sort]

\* getCourses: page, limit, query and sort as the handler builds them
getCourses_page(q) == NumberOr(ParseInt(q.page), 1)
getCourses_limit(q) == NumberOr(ParseInt(q.limit), 12)
getCourses_query(q) ==
    JsonObject(<<<<Str_isPublished, Str_true>>,
                 <<Str_category, JsonIf(Truthy(q.filter), q.filter)>>>>)
getCourses_sort(q) ==
    IF Truthy(q.sort) /\ q.sort.s = Str_priceAsc
    THEN JsonObject(<<<<Str_price, NumberChars(1)>>>>)
    ELSE JsonObject(<<<<Str_createdAt, NumberChars(0 - 1)>>>>)
getCourses_cacheKey(q) ==
    Str_courses \o Colon \o
    JsonObject(<<<<Str_query, getCourses_query(q)>>,
                 <<Str_sort, getCourses_sort(q)>>,
                 <<Str_page, NumberChars(getCourses_page(q))>>,
                 <<Str_limit, NumberChars(getCourses_limit(q))>>>>)
\* what Course.find(query).sort(sort).skip(skip).limit(limit) is given, and
\* the page of the response
getCourses_find(q) ==
    [query |-> getCourses_query(q), sort |-> getCourses_sort(q),
     skip |-> (getCourses_page(q) - 1) * getCourses_limit(q),
     limit |-> getCourses_limit(q), page |-> getCourses_page(q)]

\* getAllUsers
getAllUsers_page(q) == NumberOr(ParseInt(q.page), 1)
getAllUsers_limit(q) == NumberOr(ParseInt(q.limit), 10)
getAllUsers_filter(q) ==
    JsonObject(<<<<Str_role, JsonIf(Truthy(q.filter), q.filter)>>>>)
getAllUsers_cacheKey(q) ==
    Str_users \o Colon \o Str_all \o Colon \o
    JsonObject(<<<<Str_filter, getAllUsers_filter(q)>>,
                 <<Str_page, NumberChars(getAllUsers_page(q))>>,
                 <<Str_limit, NumberChars(getAllUsers_limit(q))>>>>)
getAllUsers_find(q) ==
    [query |-> getAllUsers_filter(q), sort |-> <<>>,
     skip |-> (getAllUsers_page(q) - 1) * getAllUsers_limit(q),
     limit |-> getAllUsers_limit(q), page |-> getAllUsers_page(q)]

\* getAllAssignments of a staff member: `page = 1, limit = 20` are the
\* defaults of the destructuring, the key takes the values as they are
getAllAssignments_page(q) == IF q.page.t = "undefined" THEN JsNum(1) ELSE q.page
getAllAssignments_limit(q) == IF q.limit.t = "undefined" THEN JsNum(20) ELSE q.limit
getAllAssignments_cacheKey(user, q) ==
    Str_assignments \o Colon \o Str_all \o Colon \o <<user>> \o Colon \o
    JsonObject(<<<<Str_course, JsonRaw(q.filter)>>,
                 <<Str_page, JsonRaw(getAllAssignments_page(q))>>,
                 <<Str_limit, JsonRaw(getAllAssignments_limit(q))>>>>)
getAllAssignments_query(user, q) ==
    [query |-> JsonObject(<<<<Str_course, JsonIf(Truthy(q.filter), q.filter)>>>>),
     sort |-> <<>>,
     skip |-> (ToNumber(getAllAssignments_page(q)) - 1)
                 * ToNumber(getAllAssignments_limit(q)),
     limit |-> ToNumber(getAllAssignments_limit(q)),
     page |-> ToNumber(getAllAssignments_page(q))]

\* `call` holds two list requests made of one handler: the query, the
\* cache key and what the database was asked
NoListCall == [h |-> Null, q |-> JsUndefined, key |-> <<>>, find |-> <<>>]
ListCall(h, q, key, find) == [h |-> h, q |-> q, key |-> key, find |-> find]
KeysInit ==
    /\ RedisInit
    /\ db = [users |-> [u \in UserIds |-> NoUser],
             courses |-> [c \in CourseIds |-> NoDoc],
             assignments |-> [g \in AsgIds |-> NoAsg],
             enrollments |-> {}]
    /\ reqs = [i \in Slots |-> IdleReq]
    /\ reqNo = 0
    /\ courseCommits = 0
    /\ courseAcked = 0
    /\ call = [prev |-> NoListCall, last |-> NoListCall]
    /\ ProgressIdle
ListRequest(c) ==
    /\ call.prev.h = Null
    /\ call.last.h \in {Null, c.h}
    /\ call' = [prev |-> call.last, last |-> c]
    /\ UNCHANGED <<redisVars, handlerVars>>
getCourses_request(q) ==
    /\ q \in [page : PageValues, limit : LimitValues, filter : FilterValues,
              sort : SortValues]
    /\ ListRequest(ListCall("getCourses", q, getCourses_cacheKey(q), getCourses_find(q)))
getAllUsers_request(q) ==
    /\ q \in [page : PageValues, limit : LimitValues, filter : FilterValues,
              sort : {JsUndefined}]
    /\ ListRequest(ListCall("getAllUsers", q, getAllUsers_cacheKey(q), getAllUsers_find(q)))
getAllAssignments_request(q) ==
    /\ q \in [page : PageValues, limit : LimitValues, filter : FilterValues,
              sort : {JsUndefined}]
    /\ ListRequest(ListCall("getAllAssignments", q,
                            getAllAssignments_cacheKey("a1", q),
                            getAllAssignments_query("a1", q)))
KeysNext ==
    \/ \E q \in [page : PageValues, limit : LimitValues, filter : FilterValues,
                 sort : SortValues] : getCourses_request(q)
    \/ \E q \in [page : PageValues, limit : LimitValues, filter : FilterValues,
                 sort : {JsUndefined}] : getAllUsers_request(q)
    \/ \E q \in [page : PageValues, limit : LimitValues, filter : FilterValues,
                 sort : {JsUndefined}] : getAllAssignments_request(q)
SpecKeys == KeysInit /\ [][KeysNext]_vars

\* C32: two list requests of one handler that ask the database the same thing
\* (filter, sort, page and limit, an omitted parameter standing for its
\* default) have the same cache key, and two that ask different things have
\* different keys.
C32_SameRequestSameKey ==
    call.prev.h # Null /\ call.prev.h = call.last.h
        => (call.prev.find = call.last.find <=> call.prev.key = call.last.key)

-----------------------------------------------------------------------------
(* Enrolment in a course whose content changes: updateCourse and           *)
(* deleteCourse run between and during the enrolment and lesson requests.  *)

\* updateCourse: Course.findByIdAndUpdate(id, req.body)
updateCourse_findByIdAndUpdate(id, body) ==
    /\ LET w == updateCourse_write([target |-> id, arg |-> body])
       IN  w.code = 0 /\ db' = w.db
    /\ UNCHANGED <<redisVars, call, reqs, reqNo, courseCommits, courseAcked, lmsVars>>
\* deleteCourse: Course.findByIdAndDelete(id)
deleteCourse_findByIdAndDelete(id) ==
    /\ LET w == deleteCourse_write([target |-> id])
       IN  w.code = 0 /\ db' = w.db
    /\ UNCHANGED <<redisVars, call, reqs, reqNo, courseCommits, courseAcked, lmsVars>>

TotalInit ==
    /\ EnrollInit

TotalNext ==
    \/ \E i \in Callers : enrollInCourse_findOne(i, "s1", "c1")
    \/ \E i \in Callers : enrollInCourse_findById(i)
    \/ \E i \in Callers : enrollCourse_findById(i, "s1", "c1")
    \/ \E i \in Callers : enrollCourse_findOne(i)
    \/ \E i \in Callers : Enrollment_create(i)
    \/ \E k \in 1..MaxEnrollCalls : Enrollment_saveProgress(k)
    \/ \E body \in CourseBodies : updateCourse_findByIdAndUpdate("c1", body)
    \/ deleteCourse_findByIdAndDelete("c1")

SpecTotal == TotalInit /\ [][TotalNext]_vars

\* the enrolment a request creates carries the sum of the lessons of the
\* modules of the course the request read
C33_CreatedStep ==
    \A i \in Callers :
        enrollCalls'[i] # enrollCalls[i] /\ enrollCalls'[i].code = 201
          => /\ Len(enrollments') = Len(enrollments) + 1
             /\ enrollments'[Len(enrollments')].totalLessons
                  = SumLessons(Course_modules(enrollCalls[i].doc))
\* no step changes the totalLessons of an enrolment
C33_FrameStep ==
    \A k \in 1..Len(enrollments) :
        /\ k <= Len(enrollments')
        /\ enrollments'[k].totalLessons = enrollments[k].totalLessons

\* C33: an enrolment's totalLessons is the sum of the lesson counts of the
\* modules of the course as the enrolment request found it, and no later
\* step (a lesson completed, the course updated or deleted) changes it.
C33_TotalLessonsFixed == [][C33_CreatedStep /\ C33_FrameStep]_vars

\* an enrolment made in a course of three lessons, one lesson completed
\* since, the course then cut to one lesson
C33_Witness ==
    /\ Len(enrollments) = 1
    /\ enrollments[1].totalLessons = 3
    /\ enrollments[1].completedLessons = 1
    /\ db.courses["c1"] = "b1"

-----------------------------------------------------------------------------
(* Two students submitting for one title while the course has only an      *)
(* assignment without a student.                                           *)

SubmitRaceInit ==
    /\ RedisInit
    /\ db = [users |-> [u \in UserIds |-> NoUser],
             courses |-> [c \in CourseIds |-> NoDoc],
             assignments |-> [g \in AsgIds |-> NoAsg],
             enrollments |-> {}]
    /\ reqs = [i \in Slots |-> IdleReq]
    /\ reqNo = 0
    /\ courseCommits = 0
    /\ courseAcked = 0
    /\ call = Null
    /\ enrollment = NoEnrollment
    /\ lessonProgress = NoProgress
    /\ lastCall = NoLessonCall
    /\ lessonCalls = [i \in Callers |-> IdleCall]
    /\ QuizIdle
    /\ EnrollIdle
    /\ assignments = [g \in AsgSlots |->
          IF g = 1 THEN Assignment(NoStudent, Null, "t1", "pending", 0)
          ELSE NoAssignment]
    /\ asgCalls = [i \in Callers |-> IdleAsgCall]
    /\ strictQuery = FALSE
    /\ batchStudents = {}

SubmitRaceNext ==
    \/ \E i \in Callers, s \in Pupils : submitAssignment_findOne(i, s, "t1")
    \/ \E i \in Callers : submitAssignment_create(i)
    \/ \E i \in Callers : submitAssignment_save(i)

SpecSubmitRace == SubmitRaceInit /\ [][SubmitRaceNext]_vars

\* a submitAssignment request of caller i answers 200 in this step
SubmitSucceeds(i) ==
    /\ asgCalls'[i] # asgCalls[i]
    /\ asgCalls'[i].h = "submitAssignment"
    /\ asgCalls'[i].code = 200

C34_SubmitStep ==
    /\ \A i \in Callers :
         SubmitSucceeds(i) =>
            \E g \in AsgSlots :
               /\ assignments'[g].exists
               /\ assignments'[g].student = asgCalls'[i].actor
               /\ assignments'[g].submission = asgCalls'[i].no
    /\ \A g \in AsgSlots :
         assignments[g].exists /\ assignments[g].student \in Pupils
            => /\ assignments'[g].student = assignments[g].student
               /\ assignments'[g].submission # assignments[g].submission
                     => \E i \in Callers : /\ SubmitSucceeds(i)
                                           /\ asgCalls'[i].actor = assignments[g].student

\* C34: when students submit for one course and title at once while only an
\* assignment without a student exists, every success response leaves a
\* stored assignment owned by that student with that student's answer, and
\* an assignment a student owns is never given to another student nor its
\* answer replaced by another student's.
C34_EachSubmissionKept == [][C34_SubmitStep]_vars

-----------------------------------------------------------------------------
(* Completion of an enrollment over later markLessonComplete calls.        *)

C35_StaysCompleted == enrollment.isCompleted => enrollment'.isCompleted

\* C35: once isCompleted is true it stays true: no later markLessonComplete
\* call, whatever its lesson indices, sets it back to false.
C35_IsCompletedStable == [][C35_StaysCompleted]_vars

C36_NotLess == enrollment'.completedLessons >= enrollment.completedLessons

\* C36: the stored completedLessons never decreases, in any sequence or
\* interleaving of markLessonComplete calls.
C36_CompletedLessonsMonotone == [][C36_NotLess]_vars

-----------------------------------------------------------------------------
(* The pending-assignments list and its cache entry, with requests of      *)
(* staff and students overlapping.                                         *)

PendingStep(i) ==
    \/ DoProtect(i)
    \/ DoCacheGet(i)
    \/ DoDbRead(i)
    \/ DoCacheSet(i)
    \/ DoDbWrite(i)
    \/ DoDelPatternKeys(i)
    \/ DoDelPatternDel(i)
    \/ DoRespond(i)

PendingNext ==
    \/ \E i \in Slots, h \in {"getPendingAssignments", "submitAssignment"} :
            isConnected /\ reqNo < MaxReqs /\ StartRequest(i, h)
    \/ \E i \in Slots : PendingStep(i)
    \/ connect
    \/ OnConnect

SpecPending == Init /\ [][PendingNext]_vars

\* request i gets or sets the key assignments:pending in this step
TouchesPending(i) ==
    /\ Running(i)
    /\ Cur(i).op \in {"cacheGet", "cacheSet"}
    /\ Cur(i).a = AssignmentsPendingKey
    /\ reqs'[i] # reqs[i]

\* protect hands request i, a getPendingAssignments of a student, on
StudentAsksPending(i) ==
    /\ At(i, "protect")
    /\ reqs[i].h = "getPendingAssignments"
    /\ db.users[reqs[i].actor] # NoUser
    /\ db.users[reqs[i].actor].isActive
    /\ db.users[reqs[i].actor].role = "student"
    /\ reqs'[i] # reqs[i]

C37_PendingStep ==
    /\ \A i \in Slots : TouchesPending(i) => reqs[i].role \in Roles \ {"student"}
    /\ \A i \in Slots :
         StudentAsksPending(i) =>
            /\ reqs'[i].status = "fail"
            /\ reqs'[i].code = 403
            /\ store' = store
    /\ store'[AssignmentsPendingKey] \notin {None, store[AssignmentsPendingKey]}
          => \E i \in Slots : TouchesPending(i) /\ Cur(i).op = "cacheSet"

\* C37: the cache key assignments:pending is read and written only by
\* requests of users who are not students: getPendingAssignments of a
\* student ends with 403 before it touches the cache.
C37_PendingKeyStaffOnly == [][C37_PendingStep]_vars

\* a student was refused the pending list while the staff's copy of it is
\* in the cache
C37_Witness ==
    \E i \in Slots :
        /\ reqs[i].h = "getPendingAssignments"
        /\ reqs[i].role = "student"
        /\ reqs[i].status = "fail"
        /\ reqs[i].code = 403
        /\ store[AssignmentsPendingKey] # None

-----------------------------------------------------------------------------
(* The range of what submitQuiz computes.                                  *)

\* C38: for every quiz that can be stored, one of no questions included, and
\* every answers array, submitQuiz yields 0 <= score <= totalPoints and a
\* percentage that is an integer of 0..100.
C38_ScoreAndPercentageInRange ==
    Scored =>
        /\ quizCall.result.score \in 0..quizCall.result.totalPoints
        /\ quizCall.result.percentage \in 0..100

-----------------------------------------------------------------------------
(* A user managing their own account.                                      *)

SelfHandlers == {"deleteUser", "toggleUserStatus", "changeUserRole"}

\* request i is one of these handlers with the caller's own id as :id
OnSelf(r) == r.h \in SelfHandlers /\ r.target = r.actor

C39_SelfStep ==
    \A i \in Slots :
        /\ OnSelf(reqs[i]) /\ At(i, "dbWrite") /\ reqs'[i] # reqs[i]
              => /\ reqs'[i].status = "fail"
                 /\ reqs'[i].code = 400 \/ reqs'[i].err = "db"
                 /\ db'.users[reqs[i].target] = db.users[reqs[i].target]
        /\ OnSelf(reqs'[i]) => reqs'[i].purged = {} /\ ~reqs'[i].wrote

\* C39: deleteUser, toggleUserStatus and changeUserRole called with the
\* caller's own id fail with 400, leave the user record as it is and purge
\* no cache key.
C39_NoSelfManagement == [][C39_SelfStep]_vars

====
